---- MODULE Spec2Model ----
(***************************************************************************)
(* A model of the cmake orchestration in src/src/cmake.rs: the Config      *)
(* builder, Config::build (platform resolution, cache guard, version       *)
(* probe, configure command, jobserver bridge, build command),             *)
(* Config::maybe_clear and Version::parse.                                 *)
(*                                                                         *)
(* Conventions.  Option<T> is a sequence of length at most one (None is    *)
(* <<>>, Some(v) is <<v>>).  A target or host triple is the sequence of    *)
(* its '-'-separated components, so String::contains on a triple is a      *)
(* search for a run of components.  Text that the code parses character by *)
(* character (the version output) is a sequence of one-character strings.  *)
(* A command-line argument is a record [g |-> the step of build() that     *)
(* pushed it, s |-> its text].  Filesystem calls are taken to succeed.     *)
(***************************************************************************)
EXTENDS Integers, Sequences, FiniteSets, TLC

VARIABLES
    config,         \* the Config value (struct Config)
    environ,        \* the process environment: variable name -> value
    platform,       \* the platform the build script is compiled for (cfg!, env::consts)
    fs,             \* the build directory and what is found on disk
    tool,           \* how the external tools answer when spawned
    pc,             \* position of the caller: "setup", inside build(), "done", "panicked"
    locals,         \* the local variables of build() that live across its subprocess waits
    configure_cmd,  \* the configure Command composed by build()
    build_cmd,      \* the build Command composed by build()
    spawned,        \* the subprocesses build() has tried to spawn so far, in order
    ncalls,         \* number of builder calls made on the Config
    parse_in,       \* the text handed to Version::parse
    parse_out       \* what Version::parse returned for it

vars == <<config, environ, platform, fs, tool, pc, locals, configure_cmd, build_cmd,
          spawned, ncalls, parse_in, parse_out>>

----------------------------------------------------------------------------
(* Bounds of the model. *)

\* builder calls made on one Config before build()
MaxCalls == 3
\* characters of version text after the optional prefix
MaxBody == 4
\* lines of a CMakeCache.txt
MaxLines == 2

----------------------------------------------------------------------------
(* Option, sequences, text. *)

None == <<>>
Some(v) == <<v>>
IsSome(o) == o # <<>>
Unwrap(o) == o[1]
UnwrapOr(o, d) == IF o # <<>> THEN o[1] ELSE d
OrElse(o, p) == IF o # <<>> THEN o ELSE p

Range(s) == {s[i] : i \in 1..Len(s)}

RECURSIVE JoinWith(_, _)
\* the strings of seq joined by sep
JoinWith(seq, sep) ==
    IF seq = <<>> THEN ""
    ELSE IF Len(seq) = 1 THEN seq[1]
    ELSE seq[1] \o sep \o JoinWith(Tail(seq), sep)

\* str::contains on a text held as a sequence of components
Contains(text, pat) ==
    \E i \in 0..(Len(text) - Len(pat)) :
        \A j \in 1..Len(pat) : text[i + j] = pat[j]

\* str::starts_with on a sequence
StartsWith(text, pat) ==
    /\ Len(pat) <= Len(text)
    /\ \A j \in 1..Len(pat) : text[j] = pat[j]

----------------------------------------------------------------------------
(* Triples, paths and other values the model draws its inputs from. *)

LinuxTriple == <<"x86_64", "unknown", "linux", "gnu">>
DarwinTriple == <<"aarch64", "apple", "darwin">>
FreeBsdTriple == <<"x86_64", "unknown", "freebsd">>
MsvcTriple == <<"x86_64", "pc", "windows", "msvc">>
MingwTriple == <<"x86_64", "pc", "windows", "gnu">>
RedoxTriple == <<"x86_64", "unknown", "redox">>
EmscriptenTriple == <<"wasm32", "unknown", "emscripten">>

\* the triple as the string the code holds
TripleStr(t) == JoinWith(t, "-")

\* what Cargo exports as CARGO_CFG_TARGET_OS / CARGO_CFG_TARGET_ARCH for a target
CargoCfgOs(t) ==
    CASE Contains(t, <<"linux">>)      -> "linux"
      [] Contains(t, <<"darwin">>)     -> "macos"
      [] Contains(t, <<"freebsd">>)    -> "freebsd"
      [] Contains(t, <<"windows">>)    -> "windows"
      [] Contains(t, <<"redox">>)      -> "redox"
      [] Contains(t, <<"emscripten">>) -> "emscripten"
      [] OTHER                         -> "unknown"
CargoCfgArch(t) == t[1]

\* the operating system a build script running on host triple h is compiled for
CfgOsOf(h) ==
    CASE Contains(h, <<"windows">>) -> "windows"
      [] Contains(h, <<"darwin">>)  -> "macos"
      [] Contains(h, <<"freebsd">>) -> "freebsd"
      [] Contains(h, <<"redox">>)   -> "redox"
      [] OTHER                      -> "linux"

\* env::consts::FAMILY
FamilyOf(os) == IF os = "windows" THEN "windows" ELSE "unix"

SourcePath == "/src"
OutDir == "/out"

\* fs::canonicalize on the paths of the model: "/lnk" is a link to "/src",
\* "/gone" does not exist, any other text names nothing on disk
CanonTable ==
    [p \in {"/src", "/lnk", "/old", "/a=b/src"} |-> IF p = "/lnk" THEN "/src" ELSE p]
canonicalize(p) == IF p \in DOMAIN CanonTable THEN Some(CanonTable[p]) ELSE None

----------------------------------------------------------------------------
(* struct Config and its builder methods. *)

\* Config::new
NewConfig(path) ==
    [path |-> path,
     generator |-> None,
     generator_toolset |-> None,
     no_default_flags |-> FALSE,
     cflags |-> "",
     cxxflags |-> "",
     asmflags |-> "",
     defines |-> <<>>,
     profile |-> None,
     out_dir |-> None,
     target |-> None,
     host |-> None,
     configure_args |-> <<>>,
     build_args |-> <<>>,
     cmake_target |-> None,
     env |-> <<>>,
     always_configure |-> TRUE,
     no_build_target |-> FALSE,
     verbose_cmake |-> FALSE,
     verbose_make |-> FALSE,
     env_cache |-> <<>>]

\* a builder call is made before build() and counts against MaxCalls
Setter(cfg) ==
    /\ pc = "setup"
    /\ ncalls < MaxCalls
    /\ config' = cfg
    /\ ncalls' = ncalls + 1
    /\ UNCHANGED <<environ, platform, fs, tool, pc, locals, configure_cmd, build_cmd,
                   spawned, parse_in, parse_out>>

generator(g) == Setter([config EXCEPT !.generator = Some(g)])

generator_toolset(t) == Setter([config EXCEPT !.generator_toolset = Some(t)])

cflag(f) == Setter([config EXCEPT !.cflags = @ \o " " \o f])

cxxflag(f) == Setter([config EXCEPT !.cxxflags = @ \o " " \o f])

asmflag(f) == Setter([config EXCEPT !.asmflags = @ \o " " \o f])

\* a faulty define: the value of a key that is in the list replaced in place
WithDefineReplacing(cfg, k, v) ==
    IF \E i \in 1..Len(cfg.defines) : cfg.defines[i][1] = k
    THEN [cfg EXCEPT !.defines = [i \in 1..Len(@) |-> IF @[i][1] = k THEN <<k, v>> ELSE @[i]]]
    ELSE [cfg EXCEPT !.defines = Append(@, <<k, v>>)]

\* the Config after define(k, v)
WithDefine(cfg, k, v) == [cfg EXCEPT !.defines = Append(@, <<k, v>>)]

define(k, v) == Setter(WithDefine(config, k, v))

target(t) == Setter([config EXCEPT !.target = Some(t)])

host(h) == Setter([config EXCEPT !.host = Some(h)])

no_build_target(b) == Setter([config EXCEPT !.no_build_target = b])

out_dir(p) == Setter([config EXCEPT !.out_dir = Some(p)])

profile(p) == Setter([config EXCEPT !.profile = Some(p)])

configure_arg(a) == Setter([config EXCEPT !.configure_args = Append(@, a)])

build_arg(a) == Setter([config EXCEPT !.build_args = Append(@, a)])

env(k, v) == Setter([config EXCEPT !.env = Append(@, <<k, v>>)])

build_target(t) == Setter([config EXCEPT !.cmake_target = Some(t)])

always_configure(b) == Setter([config EXCEPT !.always_configure = b])

very_verbose(b) == Setter([config EXCEPT !.verbose_cmake = b, !.verbose_make = b])

\* Config::defined
defined(cfg, var) == \E i \in 1..Len(cfg.defines) : cfg.defines[i][1] = var

\* Path::file_name of the paths the model uses in defines
file_name(p) ==
    CASE p = "/ndk/build/cmake/android.toolchain.cmake" -> "android.toolchain.cmake"
      [] p = "/ndk/android.toolchain.cmake/" -> "android.toolchain.cmake"
      [] p = "android.toolchain.cmake" -> "android.toolchain.cmake"
      [] p = "/ndk/android.toolchain.cmake.in" -> "android.toolchain.cmake.in"
      [] p = "/android.toolchain.cmake/tc.cmake" -> "tc.cmake"
      [] p = "/tc.cmake" -> "tc.cmake"
      [] p = "/user.cmake" -> "user.cmake"
      [] p = "/env.cmake" -> "env.cmake"
      [] OTHER -> p

\* Config::uses_android_ndk
uses_android_ndk(cfg) ==
    /\ defined(cfg, "ANDROID_ABI")
    /\ \E i \in 1..Len(cfg.defines) :
          /\ cfg.defines[i][1] = "CMAKE_TOOLCHAIN_FILE"
          /\ file_name(cfg.defines[i][2]) = "android.toolchain.cmake"

----------------------------------------------------------------------------
(* The environment. *)

\* env::var_os
var_os(name) == IF name \in DOMAIN environ THEN Some(environ[name]) ELSE None

\* a faulty lookup: the environment read again, and the cache refreshed, on a hit
getenv_os_refreshing(cache, v) ==
    [val |-> var_os(v), cache |-> (v :> var_os(v)) @@ cache]

\* Config::getenv_os: the value and the cache after the call
getenv_os(cache, v) ==
    IF v \in DOMAIN cache
    THEN [val |-> cache[v], cache |-> cache]
    ELSE [val |-> var_os(v), cache |-> (v :> var_os(v)) @@ cache]

\* Option::or_else over getenv_os: r if it holds a value, else the lookup of name
OrGetenv(r, name) == IF IsSome(r.val) THEN r ELSE getenv_os(r.cache, name)

\* a faulty chain: the bare variable looked up before the HOST_ or TARGET_ one
getenv_target_os_bare_first(cache, var_base, tgt, hst) ==
    OrGetenv(OrGetenv(OrGetenv(getenv_os(cache, var_base \o "_" \o TripleStr(tgt)),
                               var_base \o "_" \o JoinWith(tgt, "_")),
                      var_base),
             (IF hst = tgt THEN "HOST" ELSE "TARGET") \o "_" \o var_base)

\* Config::getenv_target_os, for the target and host build() resolved
getenv_target_os(cache, var_base, tgt, hst) ==
    OrGetenv(OrGetenv(OrGetenv(getenv_os(cache, var_base \o "_" \o TripleStr(tgt)),
                               var_base \o "_" \o JoinWith(tgt, "_")),
                      (IF hst = tgt THEN "HOST" ELSE "TARGET") \o "_" \o var_base),
             var_base)

----------------------------------------------------------------------------
(* struct Version. *)

\* the digits of the largest u32, 4294967295
U32MaxDigits == <<"4", "2", "9", "4", "9", "6", "7", "2", "9", "5">>

Digits == {"0", "1", "2", "3", "4", "5", "6", "7", "8", "9"}

DigitVal(c) ==
    CASE c = "0" -> 0 [] c = "1" -> 1 [] c = "2" -> 2 [] c = "3" -> 3 [] c = "4" -> 4
      [] c = "5" -> 5 [] c = "6" -> 6 [] c = "7" -> 7 [] c = "8" -> 8 [] c = "9" -> 9

RECURSIVE DecimalValue(_)
DecimalValue(ds) ==
    IF ds = <<>> THEN 0 ELSE 10 * DecimalValue(SubSeq(ds, 1, Len(ds) - 1)) + DigitVal(ds[Len(ds)])

RECURSIVE StripZeros(_)
StripZeros(ds) == IF ds # <<>> /\ ds[1] = "0" THEN StripZeros(Tail(ds)) ELSE ds

\* a <= b for two digit sequences of one length
DigitsLe(a, b) ==
    \/ a = b
    \/ \E i \in 1..Len(a) :
          /\ DigitVal(a[i]) < DigitVal(b[i])
          /\ \A j \in 1..(i - 1) : a[j] = b[j]

\* whether the number a digit sequence writes fits a u32
FitsU32(ds) ==
    LET sig == StripZeros(ds)
    IN  \/ Len(sig) < Len(U32MaxDigits)
        \/ (Len(sig) = Len(U32MaxDigits) /\ DigitsLe(sig, U32MaxDigits))

\* str::parse::<u32>: an optional '+', then at least one digit, no overflow
parse_u32(s) ==
    LET ds == IF s # <<>> /\ s[1] = "+" THEN Tail(s) ELSE s
    IN  IF ds # <<>> /\ (\A i \in 1..Len(ds) : ds[i] \in Digits) /\ FitsU32(ds)
        THEN Some(DecimalValue(ds))
        ELSE None

\* index of the first c in s, or 0
IndexOf(s, c) ==
    IF \E i \in 1..Len(s) : s[i] = c
    THEN CHOOSE i \in 1..Len(s) : s[i] = c /\ \A j \in 1..(i - 1) : s[j] # c
    ELSE 0

\* str::lines().next(): None for the empty text, else the text before the first
\* "\n", without the "\r" of a "\r\n"
first_line(s) ==
    LET n == IndexOf(s, "\n")
        raw == IF n = 0 THEN s ELSE SubSeq(s, 1, n - 1)
    IN  IF s = <<>> THEN None
        ELSE IF n > 0 /\ raw # <<>> /\ raw[Len(raw)] = "\r"
        THEN Some(SubSeq(raw, 1, Len(raw) - 1))
        ELSE Some(raw)

\* str::strip_prefix
strip_prefix(s, pre) ==
    IF StartsWith(s, pre) THEN Some(SubSeq(s, Len(pre) + 1, Len(s))) ELSE None

\* str::splitn(3, '.'): at most three pieces, the last one holding the rest
splitn3(s) ==
    LET i == IndexOf(s, ".")
        r1 == SubSeq(s, i + 1, Len(s))
        j == IndexOf(r1, ".")
    IN  IF i = 0 THEN <<s>>
        ELSE IF j = 0 THEN <<SubSeq(s, 1, i - 1), r1>>
        ELSE <<SubSeq(s, 1, i - 1), SubSeq(r1, 1, j - 1), SubSeq(r1, j + 1, Len(r1))>>

\* the literal "cmake version "
VersionPrefix == <<"c", "m", "a", "k", "e", " ", "v", "e", "r", "s", "i", "o", "n", " ">>

\* Version::new
VersionNew(major, minor) == [major |-> major, minor |-> minor]

\* a faulty parse: a version of three components is asked for
VersionParseThreeParts(s) ==
    LET line == first_line(s)
        version == IF IsSome(line) THEN strip_prefix(Unwrap(line), VersionPrefix) ELSE None
        digits == IF IsSome(version) THEN splitn3(Unwrap(version)) ELSE <<>>
        major == IF Len(digits) = 3 THEN parse_u32(digits[1]) ELSE None
        minor == IF Len(digits) = 3 THEN parse_u32(digits[2]) ELSE None
    IN  IF IsSome(major) /\ IsSome(minor)
        THEN Some(VersionNew(Unwrap(major), Unwrap(minor)))
        ELSE None

\* Version::parse
VersionParse(s) ==
    LET line == first_line(s)
        version == IF IsSome(line) THEN strip_prefix(Unwrap(line), VersionPrefix) ELSE None
        digits == IF IsSome(version) THEN splitn3(Unwrap(version)) ELSE <<>>
        major == IF Len(digits) >= 1 THEN parse_u32(digits[1]) ELSE None
        minor == IF Len(digits) >= 2 THEN parse_u32(digits[2]) ELSE None
    IN  IF IsSome(major) /\ IsSome(minor)
        THEN Some(VersionNew(Unwrap(major), Unwrap(minor)))
        ELSE None

\* impl Default for Version
VersionDefault == VersionNew(3, 22)

\* a faulty comparison: each field compared on its own
VersionGeFieldwise(a, b) == a.major >= b.major /\ a.minor >= b.minor

\* derive(PartialOrd, Ord) on Version: a >= b, fields compared in order
VersionGe(a, b) == a.major > b.major \/ (a.major = b.major /\ a.minor >= b.minor)

\* a faulty probe: the output parsed whatever the exit status
VersionFromCommandAnyExit(answer) ==
    IF ~answer.spawns THEN None
    ELSE IF ~answer.utf8 THEN None
    ELSE VersionParse(answer.stdout)

\* Version::from_command on the answer of the spawned tool
VersionFromCommand(answer) ==
    IF ~answer.spawns THEN None
    ELSE IF ~answer.success THEN None
    ELSE IF ~answer.utf8 THEN None
    ELSE VersionParse(answer.stdout)

----------------------------------------------------------------------------
(* Config::maybe_clear. *)

\* the text of a cache line: its key, then its '='-separated pieces
HomeKey == <<"CMAKE_HOME_DIRECTORY">>

\* line.starts_with("CMAKE_HOME_DIRECTORY")
IsHomeLine(line) == StartsWith(line.key, HomeKey)

\* line.split('=').next_back(): the text after the last '=', the whole line if none
LastPiece(line) ==
    IF line.rest = <<>> THEN JoinWith(line.key, "") ELSE line.rest[Len(line.rest)]

\* needs_cleanup of the first home-directory line
NeedsCleanup(line, path) ==
    LET cmake_home == canonicalize(LastPiece(line))
    IN  IF IsSome(cmake_home) THEN Unwrap(cmake_home) # path ELSE TRUE

\* the file system after maybe_clear(dir) for a Config whose source path is src
maybe_clear(disk, src) ==
    LET path == UnwrapOr(canonicalize(src), src)
        lines == disk.cache.lines
        homes == {i \in 1..Len(lines) : IsHomeLine(lines[i])}
        first == CHOOSE i \in homes : \A j \in homes : i <= j
    IN  IF ~disk.cache.exists THEN disk
        ELSE IF ~disk.cache.readable THEN disk
        ELSE IF homes = {} THEN disk
        ELSE IF NeedsCleanup(lines[first], path)
        THEN [dir |-> FALSE,
              cache |-> [exists |-> FALSE, readable |-> FALSE, lines |-> <<>>],
              makefile |-> FALSE]
        ELSE disk

\* a faulty build(): the build directory not created again
create_dir_all_skipped(disk) == disk

\* fs::create_dir_all(dir)
create_dir_all(disk) == [disk EXCEPT !.dir = TRUE]

----------------------------------------------------------------------------
(* Config::build, up to the version probe. *)

\* getenv_unwrap: the value, or None where the code panics
getenv_unwrap(v) == var_os(v)

\* the (CMAKE_SYSTEM_NAME, CMAKE_SYSTEM_PROCESSOR) table
SystemPair(os, arch) ==
    CASE os = "android" /\ arch = "arm"       -> <<"Android", "armv7-a">>
      [] os = "android" /\ arch = "x86"       -> <<"Android", "i686">>
      [] os = "android"                       -> <<"Android", arch>>
      [] os = "dragonfly"                     -> <<"DragonFly", arch>>
      [] os = "macos" /\ arch = "aarch64"     -> <<"Darwin", "arm64">>
      [] os = "macos"                         -> <<"Darwin", arch>>
      [] os = "freebsd" /\ arch = "x86_64"    -> <<"FreeBSD", "amd64">>
      [] os = "freebsd"                       -> <<"FreeBSD", arch>>
      [] os = "fuchsia"                       -> <<"Fuchsia", arch>>
      [] os = "haiku"                         -> <<"Haiku", arch>>
      [] os = "ios" /\ arch = "aarch64"       -> <<"iOS", "arm64">>
      [] os = "ios"                           -> <<"iOS", arch>>
      [] os = "linux" /\ arch = "powerpc"     -> <<"Linux", "ppc">>
      [] os = "linux" /\ arch = "powerpc64"   -> <<"Linux", "ppc64">>
      [] os = "linux" /\ arch = "powerpc64le" -> <<"Linux", "ppc64le">>
      [] os = "linux"                         -> <<"Linux", arch>>
      [] os = "netbsd"                        -> <<"NetBSD", arch>>
      [] os = "openbsd" /\ arch = "x86_64"    -> <<"OpenBSD", "amd64">>
      [] os = "openbsd"                       -> <<"OpenBSD", arch>>
      [] os = "solaris"                       -> <<"SunOS", arch>>
      [] os = "tvos" /\ arch = "aarch64"      -> <<"tvOS", "arm64">>
      [] os = "tvos"                          -> <<"tvOS", arch>>
      [] os = "visionos" /\ arch = "aarch64"  -> <<"visionOS", "arm64">>
      [] os = "visionos"                      -> <<"visionOS", arch>>
      [] os = "watchos" /\ arch = "aarch64"   -> <<"watchOS", "arm64">>
      [] os = "watchos"                       -> <<"watchOS", arch>>
      [] os = "windows" /\ arch = "x86_64"    -> <<"Windows", "AMD64">>
      [] os = "windows" /\ arch = "x86"       -> <<"Windows", "X86">>
      [] os = "windows" /\ arch = "aarch64"   -> <<"Windows", "ARM64">>
      [] os = "none"                          -> <<"Generic", arch>>
      [] OTHER                                -> <<os, arch>>

\* lines 505-506: both defines of a (system name, system processor) pair
WithSystemPair(cfg, pair) ==
    WithDefine(WithDefine(cfg, "CMAKE_SYSTEM_NAME", pair[1]), "CMAKE_SYSTEM_PROCESSOR", pair[2])

\* a faulty branch: the architecture passed on as the processor without the table
CrossDefinesVerbatimArch(cfg, os, arch) ==
    IF os = None \/ arch = None
    THEN [cfg |-> cfg, ok |-> FALSE]
    ELSE [cfg |-> WithSystemPair(cfg, <<SystemPair(Unwrap(os), Unwrap(arch))[1], Unwrap(arch)>>),
          ok |-> TRUE]

\* lines 459-506, the cross-compiling branch: a panic on a missing variable
CrossDefines(cfg, os, arch) ==
    IF os = None \/ arch = None
    THEN [cfg |-> cfg, ok |-> FALSE]
    ELSE [cfg |-> WithSystemPair(cfg, SystemPair(Unwrap(os), Unwrap(arch))), ok |-> TRUE]

\* a faulty branch: the cross-compiling defines injected whether or not target and host differ
PlatformBranchAlwaysCross(c1, val, tgt, hst) ==
    IF IsSome(val)
    THEN [cfg |-> WithDefine(c1, "CMAKE_TOOLCHAIN_FILE", Unwrap(val)), ok |-> TRUE]
    ELSE IF Contains(tgt, <<"redox">>)
    THEN [cfg |-> IF ~defined(c1, "CMAKE_SYSTEM_NAME")
                  THEN WithDefine(c1, "CMAKE_SYSTEM_NAME", "Generic")
                  ELSE c1,
          ok |-> TRUE]
    ELSE IF ~defined(c1, "CMAKE_SYSTEM_NAME")
    THEN CrossDefines(c1, getenv_unwrap("CARGO_CFG_TARGET_OS"),
                      getenv_unwrap("CARGO_CFG_TARGET_ARCH"))
    ELSE [cfg |-> c1, ok |-> TRUE]

\* lines 451-507, for the Config c1 after the lookup and the value val it found
PlatformBranch(c1, val, tgt, hst) ==
    IF IsSome(val)
    THEN [cfg |-> WithDefine(c1, "CMAKE_TOOLCHAIN_FILE", Unwrap(val)), ok |-> TRUE]
    ELSE IF Contains(tgt, <<"redox">>)
    THEN [cfg |-> IF ~defined(c1, "CMAKE_SYSTEM_NAME")
                  THEN WithDefine(c1, "CMAKE_SYSTEM_NAME", "Generic")
                  ELSE c1,
          ok |-> TRUE]
    ELSE IF tgt # hst /\ ~defined(c1, "CMAKE_SYSTEM_NAME")
    THEN CrossDefines(c1, getenv_unwrap("CARGO_CFG_TARGET_OS"),
                      getenv_unwrap("CARGO_CFG_TARGET_ARCH"))
    ELSE [cfg |-> c1, ok |-> TRUE]

\* the Config with the cache a lookup left, and the value it found
AfterLookup(cfg, r, tgt, hst) ==
    PlatformBranch([cfg EXCEPT !.env_cache = r.cache], r.val, tgt, hst)

\* a faulty resolution: the redox and cross branches tried after a toolchain file
\* the caller defined
ResolvePlatformElseChain(cfg, tgt, hst) ==
    IF defined(cfg, "CMAKE_TOOLCHAIN_FILE") THEN PlatformBranch(cfg, None, tgt, hst)
    ELSE AfterLookup(cfg, getenv_target_os(cfg.env_cache, "CMAKE_TOOLCHAIN_FILE", tgt, hst),
                     tgt, hst)

\* lines 450-508, the platform defines build() injects: the Config after them, ok
\* FALSE on a panic
ResolvePlatform(cfg, tgt, hst) ==
    IF defined(cfg, "CMAKE_TOOLCHAIN_FILE") THEN [cfg |-> cfg, ok |-> TRUE]
    ELSE AfterLookup(cfg, getenv_target_os(cfg.env_cache, "CMAKE_TOOLCHAIN_FILE", tgt, hst),
                     tgt, hst)

\* the flags cc::Build takes from the environment: CXXFLAGS for the C++ build, CFLAGS
\* for the C build, which the assembler shares
EnvFlags(kind) == UnwrapOr(var_os(IF kind = "CXX" THEN "CXXFLAGS" ELSE "CFLAGS"), <<>>)

\* cc::Build::get_compiler, an external collaborator: a path and base arguments,
\* each argument a sequence of pieces whose first piece is its two-character prefix;
\* the arguments end with the flags of the environment
get_compiler(kind, tgt) ==
    IF Contains(tgt, <<"msvc">>)
    THEN [path |-> "cl.exe",
          args |-> <<<<"-n", "ologo">>, <<"/O", "2">>, <<"-M", "D">>>> \o EnvFlags(kind)]
    ELSE IF Contains(tgt, <<"windows", "gnu">>)
    THEN [path |-> IF kind = "CXX" THEN "x86_64-w64-mingw32-g++" ELSE "x86_64-w64-mingw32-gcc",
          args |-> <<<<"-O", "0">>, <<"-m", "64">>>> \o EnvFlags(kind)]
    ELSE [path |-> IF kind = "CXX" THEN "c++" ELSE "cc",
          args |-> <<<<"-O", "0">>, <<"-f", "PIC">>>> \o EnvFlags(kind)]

\* a faulty detection: the target passed to cc::Build whatever the toolchain
CcTargetAlways(ndk, tgt) == Some(tgt)

\* lines 533-535 and 545-547: the target build() passes to cc::Build, None when it
\* passes none
CcTarget(ndk, tgt) == IF ndk THEN None ELSE Some(tgt)

\* the target cc::Build detects the compiler for: the one it was passed, TARGET of
\* the environment otherwise
DetectionTarget(ndk, tgt) == UnwrapOr(CcTarget(ndk, tgt), UnwrapOr(var_os("TARGET"), <<>>))

\* the executables found in the directories of PATH
OnPath == {"cc", "cl.exe", "x86_64-w64-mingw32-gcc", "x86_64-w64-mingw32-windres"}

\* find_exe
find_exe(path) == IF path \in OnPath THEN "/usr/bin/" \o path ELSE path

\* Config::cmake_executable: the name and the cache after the lookup
ExecutableOf(r) == [val |-> UnwrapOr(r.val, "cmake"), cache |-> r.cache]
cmake_executable(cache, tgt, hst) == ExecutableOf(getenv_target_os(cache, "CMAKE", tgt, hst))

\* a Command: program, arguments, added environment, working directory
NewCommand(program) == [program |-> program, args |-> <<>>, env |-> <<>>, cwd |-> ""]

Arg(g, s) == [g |-> g, s |-> s]

\* an argument of the set_compiler closure, with the language it is for
LangArg(g, kind, s) == [g |-> g, s |-> s, kind |-> kind]

\* Command::new(program) with the cmake executable exe as its first argument
WrappedCommand(program, exe) ==
    [cmd |-> [NewCommand(program) EXCEPT !.args = <<Arg("wrapper", exe.val)>>],
     cache |-> exe.cache]

\* the emscripten branch, for the result w of the lookup of the wrapper
WrapperCommand(w, fallback, tgt, hst) ==
    WrappedCommand(UnwrapOr(w.val, fallback), cmake_executable(w.cache, tgt, hst))

\* Command::new(self.cmake_executable())
PlainCommand(exe) == [cmd |-> NewCommand(exe.val), cache |-> exe.cache]

\* Config::cmake_configure_command and Config::cmake_build_command: wrapper is
\* "EMCMAKE" or "EMMAKE", fallback "emcmake" or "emmake"
cmake_command(cache, tgt, hst, wrapper, fallback) ==
    IF Contains(tgt, <<"emscripten">>)
    THEN WrapperCommand(getenv_target_os(cache, wrapper, tgt, hst), fallback, tgt, hst)
    ELSE PlainCommand(cmake_executable(cache, tgt, hst))

\* the locals of build() before it has run
NoLocals ==
    [target |-> <<>>, host |-> <<>>, generator |-> None, msvc |-> FALSE, ndk |-> FALSE,
     c_compiler |-> get_compiler("C", <<>>), cxx_compiler |-> get_compiler("CXX", <<>>),
     asm_compiler |-> get_compiler("ASM", <<>>), cc_target |-> None,
     dst |-> "", cmake_prefix_path |-> "", version |-> VersionDefault,
     given_defines |-> 0, cleared |-> FALSE,
     profile |-> "", is_ninja |-> FALSE, panic |-> "", checked |-> FALSE,
     cache_at_check |-> FALSE,
     skipped |-> FALSE,
     makefile_at_check |-> FALSE, use_jobserver |-> FALSE]

\* lines 442-446: the target and host triples, None where the code panics
ResolveTarget(cfg) == IF IsSome(cfg.target) THEN cfg.target ELSE getenv_unwrap("TARGET")
ResolveHost(cfg) == IF IsSome(cfg.host) THEN cfg.host ELSE getenv_unwrap("HOST")

\* a faulty precedence: the environment before the generator() setting
ResolveGeneratorEnvFirst(cfg, tgt, hst) ==
    IF IsSome(getenv_target_os(cfg.env_cache, "CMAKE_GENERATOR", tgt, hst).val)
    THEN getenv_target_os(cfg.env_cache, "CMAKE_GENERATOR", tgt, hst)
    ELSE [val |-> cfg.generator, cache |-> cfg.env_cache]

\* lines 510-513: the generator in effect and the cache after the lookup
ResolveGenerator(cfg, tgt, hst) ==
    IF IsSome(cfg.generator)
    THEN [val |-> cfg.generator, cache |-> cfg.env_cache]
    ELSE getenv_target_os(cfg.env_cache, "CMAKE_GENERATOR", tgt, hst)

\* lines 517-521: the MSVC patch of the C and C++ flag strings
MsvcPatch(cfg, msvc) ==
    IF msvc
    THEN [cfg EXCEPT !.cxxflags = @ \o " -EHsc", !.cflags = @ \o " -EHsc"]
    ELSE cfg

\* what build() leaves when it panics before the configure step
BeginPanic(cfg, disk) ==
    [ok |-> FALSE, cfg |-> cfg, disk |-> disk, l |-> NoLocals, cmd |-> NewCommand(""),
     spawns |-> <<>>]

\* line 585: the version probe, and the frame build() holds when it returns
BeginProbe(cfg, tgt, hst, gen, dst, disk, pre, cc, given, cleared) ==
    [ok |-> TRUE,
     cfg |-> [cfg EXCEPT !.env_cache = cc.cache],
     disk |-> disk,
     l |-> [NoLocals EXCEPT
               !.target = tgt, !.host = hst, !.generator = gen,
               !.msvc = Contains(tgt, <<"msvc">>), !.ndk = uses_android_ndk(cfg),
               !.cc_target = CcTarget(uses_android_ndk(cfg), tgt),
               !.c_compiler = get_compiler("C", DetectionTarget(uses_android_ndk(cfg), tgt)),
               !.cxx_compiler = get_compiler("CXX", DetectionTarget(uses_android_ndk(cfg), tgt)),
               !.asm_compiler = get_compiler("ASM", DetectionTarget(uses_android_ndk(cfg), tgt)),
               !.dst = dst,
               !.cmake_prefix_path = UnwrapOr(pre.val, ""),
               !.version = UnwrapOr(VersionFromCommand(tool.version), VersionDefault),
               !.given_defines = given,
               !.cleared = cleared],
     cmd |-> cc.cmd,
     spawns |-> <<"version">>]

\* lines 568-583: the prefix path and the configure Command
BeginCommand(cfg, tgt, hst, gen, dst, disk, pre, given, cleared) ==
    BeginProbe(cfg, tgt, hst, gen, dst, disk, pre,
               cmake_command(pre.cache, tgt, hst, "EMCMAKE", "emcmake"), given, cleared)

\* lines 564-566: maybe_clear and create_dir_all, disk1 the disk after maybe_clear
BeginGuard(cfg, tgt, hst, gen, dst, disk0, disk1, given) ==
    BeginCommand(cfg, tgt, hst, gen, dst, create_dir_all(disk1),
                 getenv_target_os(cfg.env_cache, "CMAKE_PREFIX_PATH", tgt, hst),
                 given, disk0.dir /\ ~disk1.dir)

\* lines 560-563: the output directory
BeginOutDir(cfg, tgt, hst, gen, dstO, disk0, given) ==
    IF dstO = None THEN BeginPanic(cfg, disk0)
    ELSE BeginGuard(cfg, tgt, hst, gen, Unwrap(dstO), disk0, maybe_clear(disk0, cfg.path), given)

\* lines 510-558, for the result gen of the generator lookup
BeginGenerator(cfg, tgt, hst, gen, disk0, given) ==
    BeginOutDir(MsvcPatch([cfg EXCEPT !.env_cache = gen.cache], Contains(tgt, <<"msvc">>)),
                tgt, hst, gen.val,
                IF IsSome(cfg.out_dir) THEN cfg.out_dir ELSE getenv_unwrap("OUT_DIR"),
                disk0, given)

\* lines 450-513, for the result plat of the platform resolution
BeginPlatform(plat, tgt, hst, disk0, given) ==
    IF ~plat.ok THEN BeginPanic(plat.cfg, disk0)
    ELSE BeginGenerator(plat.cfg, tgt, hst, ResolveGenerator(plat.cfg, tgt, hst), disk0, given)

\* lines 442-585 of build(): what it has computed when the version probe returns;
\* ok is FALSE where it panicked
BeginFrame(cfg0, disk0) ==
    IF ResolveTarget(cfg0) = None \/ ResolveHost(cfg0) = None
    THEN BeginPanic(cfg0, disk0)
    ELSE BeginPlatform(ResolvePlatform(cfg0, Unwrap(ResolveTarget(cfg0)),
                                       Unwrap(ResolveHost(cfg0))),
                       Unwrap(ResolveTarget(cfg0)), Unwrap(ResolveHost(cfg0)),
                       disk0, Len(cfg0.defines))

\* build(), from its entry to the return of the version probe
BuildBegin ==
    /\ pc = "setup"
    /\ \E f \in {BeginFrame(config, fs)} :
           /\ config' = f.cfg
           /\ fs' = f.disk
           /\ locals' = f.l
           /\ configure_cmd' = f.cmd
           /\ spawned' = spawned \o f.spawns
           /\ pc' = IF f.ok THEN "configure" ELSE "panicked"
    /\ UNCHANGED <<environ, platform, tool, build_cmd, ncalls, parse_in, parse_out>>

----------------------------------------------------------------------------
(* Config::build: the configure command. *)

\* a generator name is the sequence of its words
GeneratorText(g) == JoinWith(g, " ")

\* a faulty get_profile: a DEBUG that is neither "false" nor "true" taken as false
get_profile_debug_true_only(cfg) ==
    LET rp == getenv_unwrap("PROFILE")
        ol == getenv_unwrap("OPT_LEVEL")
        dbg == getenv_unwrap("DEBUG")
        rust_profile == IF Unwrap(rp) = "debug" THEN "Debug" ELSE "Release"
        opt_level == CASE Unwrap(ol) = "0" -> "Debug"
                       [] Unwrap(ol) \in {"1", "2", "3"} -> "Release"
                       [] Unwrap(ol) \in {"s", "z"} -> "Size"
                       [] OTHER -> rust_profile
        debug_info == Unwrap(dbg) = "true"
    IN  IF IsSome(cfg.profile) THEN cfg.profile
        ELSE IF rp = None \/ ol = None \/ dbg = None THEN None
        ELSE Some(CASE opt_level = "Debug" -> "Debug"
                    [] opt_level = "Release" /\ ~debug_info -> "Release"
                    [] opt_level = "Release" /\ debug_info -> "RelWithDebInfo"
                    [] opt_level = "Size" -> "MinSizeRel")

\* Config::get_profile, None where an environment variable is missing
get_profile(cfg) ==
    LET rp == getenv_unwrap("PROFILE")
        ol == getenv_unwrap("OPT_LEVEL")
        dbg == getenv_unwrap("DEBUG")
        rust_profile == IF Unwrap(rp) = "debug" THEN "Debug" ELSE "Release"
        opt_level == CASE Unwrap(ol) = "0" -> "Debug"
                       [] Unwrap(ol) \in {"1", "2", "3"} -> "Release"
                       [] Unwrap(ol) \in {"s", "z"} -> "Size"
                       [] OTHER -> rust_profile
        debug_info == Unwrap(dbg) # "false"
    IN  IF IsSome(cfg.profile) THEN cfg.profile
        ELSE IF rp = None \/ ol = None \/ dbg = None THEN None
        ELSE Some(CASE opt_level = "Debug" -> "Debug"
                    [] opt_level = "Release" /\ ~debug_info -> "Release"
                    [] opt_level = "Release" /\ debug_info -> "RelWithDebInfo"
                    [] opt_level = "Size" -> "MinSizeRel")

\* char::to_uppercase over the build types of the model
to_uppercase(s) ==
    CASE s = "Debug" -> "DEBUG"
      [] s = "Release" -> "RELEASE"
      [] s = "RelWithDebInfo" -> "RELWITHDEBINFO"
      [] s = "MinSizeRel" -> "MINSIZEREL"
      [] OTHER -> s

\* lines 587-590
VerboseArgs(cfg) ==
    IF cfg.verbose_cmake
    THEN <<Arg("verbose", "-Wdev"), Arg("verbose", "--debug-output")>>
    ELSE <<>>

\* line 592
PathArgs(cfg) == <<Arg("path", cfg.path)>>

\* lines 593-596
IsNinja(gen) == IsSome(gen) /\ Contains(Unwrap(gen), <<"Ninja">>)

\* the versions find_vs_version may answer that visual_studio_generator has a name for
VsSupported == {"Vs17", "Vs16", "Vs15", "Vs14", "Vs12"}

\* Config::visual_studio_generator: the generator, None where it panics
visual_studio_generator(tgt) ==
    LET base == CASE tool.vs_version = "Vs17" -> Some(<<"Visual", "Studio", "17", "2022">>)
                  [] tool.vs_version = "Vs16" -> Some(<<"Visual", "Studio", "16", "2019">>)
                  [] tool.vs_version = "Vs15" -> Some(<<"Visual", "Studio", "15", "2017">>)
                  [] tool.vs_version = "Vs14" -> Some(<<"Visual", "Studio", "14", "2015">>)
                  [] tool.vs_version = "Vs12" -> Some(<<"Visual", "Studio", "12", "2013">>)
                  [] OTHER -> None
    IN  IF base = None THEN None
        ELSE IF \E t \in {"i686", "x86_64", "thumbv7a", "aarch64"} : Contains(tgt, <<t>>)
        THEN base
        ELSE None

\* a faulty branch: the Makefiles generator named also when a generator is set
MingwHostArgsUnguarded(gen) ==
    LET spawns == <<"make", "mingw32-make">>
    IN  IF tool.has_msys2
        THEN [ok |-> TRUE, spawns |-> spawns,
              args |-> <<Arg("platform", "-G"), Arg("platform", "MSYS Makefiles")>>]
        ELSE IF tool.has_mingw32
        THEN [ok |-> TRUE, spawns |-> spawns,
              args |-> <<Arg("platform", "-G"), Arg("platform", "MinGW Makefiles")>>]
        ELSE [ok |-> FALSE, args |-> <<>>, spawns |-> spawns,
              err |-> "no valid generator found for GNU toolchain"]

\* lines 598-626: a Windows GNU target on a Windows host
MingwHostArgs(gen) ==
    LET spawns == <<"make", "mingw32-make">>
    IN  IF IsSome(gen) THEN [ok |-> TRUE, args |-> <<>>, spawns |-> <<>>]
        ELSE IF tool.has_msys2
        THEN [ok |-> TRUE, spawns |-> spawns,
              args |-> <<Arg("platform", "-G"), Arg("platform", "MSYS Makefiles")>>]
        ELSE IF tool.has_mingw32
        THEN [ok |-> TRUE, spawns |-> spawns,
              args |-> <<Arg("platform", "-G"), Arg("platform", "MinGW Makefiles")>>]
        ELSE [ok |-> FALSE, args |-> <<>>, spawns |-> spawns,
              err |-> "no valid generator found for GNU toolchain"]

\* name.replace("gcc", "windres") on the compiler names of the model
ReplaceGcc(name) ==
    IF name = "/usr/bin/x86_64-w64-mingw32-gcc" THEN "/usr/bin/x86_64-w64-mingw32-windres"
    ELSE name

\* Path::is_file
is_file(p) == \E n \in OnPath : p = "/usr/bin/" \o n

\* lines 627-644: a Windows GNU target on another host
MingwCrossArgs(cfg, l) ==
    LET windres == ReplaceGcc(find_exe(l.c_compiler.path))
    IN  IF ~defined(cfg, "CMAKE_RC_COMPILER") /\ is_file(windres)
        THEN [ok |-> TRUE, spawns |-> <<>>,
              args |-> <<Arg("platform", "-DCMAKE_RC_COMPILER=" \o windres)>>]
        ELSE [ok |-> TRUE, spawns |-> <<>>, args |-> <<>>]

\* a faulty choice: aarch64 looked for before x86_64
MsvcArchArgsAarchFirst(cfg, tgt) ==
    LET host64 == IF cfg.generator_toolset = None
                  THEN <<Arg("platform", "-Thost=x64")>> ELSE <<>>
        host86 == IF cfg.generator_toolset = None
                  THEN <<Arg("platform", "-Thost=x86")>> ELSE <<>>
    IN  IF Contains(tgt, <<"aarch64">>)
        THEN [ok |-> TRUE, args |-> host64 \o <<Arg("platform", "-AARM64")>>]
        ELSE IF Contains(tgt, <<"x86_64">>)
        THEN [ok |-> TRUE, args |-> host64 \o <<Arg("platform", "-Ax64")>>]
        ELSE IF Contains(tgt, <<"thumbv7a">>)
        THEN [ok |-> TRUE, args |-> host64 \o <<Arg("platform", "-Aarm")>>]
        ELSE IF Contains(tgt, <<"i686">>)
        THEN [ok |-> TRUE, args |-> host86 \o <<Arg("platform", "-AWin32")>>]
        ELSE [ok |-> FALSE, args |-> <<>>, err |-> "unsupported msvc target"]

\* lines 656-678: the architecture and host-toolset flags of an MSVC target
MsvcArchArgs(cfg, tgt) ==
    LET host64 == IF cfg.generator_toolset = None
                  THEN <<Arg("platform", "-Thost=x64")>> ELSE <<>>
        host86 == IF cfg.generator_toolset = None
                  THEN <<Arg("platform", "-Thost=x86")>> ELSE <<>>
    IN  IF Contains(tgt, <<"x86_64">>)
        THEN [ok |-> TRUE, args |-> host64 \o <<Arg("platform", "-Ax64")>>]
        ELSE IF Contains(tgt, <<"thumbv7a">>)
        THEN [ok |-> TRUE, args |-> host64 \o <<Arg("platform", "-Aarm")>>]
        ELSE IF Contains(tgt, <<"aarch64">>)
        THEN [ok |-> TRUE, args |-> host64 \o <<Arg("platform", "-AARM64")>>]
        ELSE IF Contains(tgt, <<"i686">>)
        THEN [ok |-> TRUE, args |-> host86 \o <<Arg("platform", "-AWin32")>>]
        ELSE [ok |-> FALSE, args |-> <<>>, err |-> "unsupported msvc target"]

\* lines 645-679: an MSVC target
MsvcArgs(cfg, l) ==
    LET gen == l.generator
        vs == visual_studio_generator(l.target)
        using_nmake == IsSome(gen) /\ Unwrap(gen) \in {<<"NMake", "Makefiles">>,
                                                      <<"NMake", "Makefiles", "JOM">>}
        garg == IF IsSome(gen) THEN <<>>
                ELSE <<Arg("platform", "-G"), Arg("platform", GeneratorText(Unwrap(vs)))>>
        arch == MsvcArchArgs(cfg, l.target)
    IN  IF gen = None /\ vs = None
        THEN [ok |-> FALSE, args |-> <<>>, spawns |-> <<>>,
              err |-> IF tool.vs_version \in VsSupported THEN "unsupported msvc target"
                      ELSE "unsupported Visual Studio version"]
        ELSE IF ~IsNinja(gen) /\ ~using_nmake
        THEN [ok |-> arch.ok, args |-> garg \o arch.args, spawns |-> <<>>,
              err |-> IF arch.ok THEN "" ELSE arch.err]
        ELSE [ok |-> TRUE, args |-> garg, spawns |-> <<>>]

\* a faulty branch: an Apple target of another architecture let through
DarwinArgsAnyArch(tgt) ==
    IF Contains(tgt, <<"x86_64">>)
    THEN [ok |-> TRUE, spawns |-> <<>>,
          args |-> <<Arg("platform", "-DCMAKE_OSX_ARCHITECTURES=x86_64")>>]
    ELSE IF Contains(tgt, <<"aarch64">>)
    THEN [ok |-> TRUE, spawns |-> <<>>,
          args |-> <<Arg("platform", "-DCMAKE_OSX_ARCHITECTURES=arm64")>>]
    ELSE [ok |-> TRUE, spawns |-> <<>>, args |-> <<>>]

\* lines 680-688: an Apple target
DarwinArgs(tgt) ==
    IF Contains(tgt, <<"x86_64">>)
    THEN [ok |-> TRUE, spawns |-> <<>>,
          args |-> <<Arg("platform", "-DCMAKE_OSX_ARCHITECTURES=x86_64")>>]
    ELSE IF Contains(tgt, <<"aarch64">>)
    THEN [ok |-> TRUE, spawns |-> <<>>,
          args |-> <<Arg("platform", "-DCMAKE_OSX_ARCHITECTURES=arm64")>>]
    ELSE [ok |-> FALSE, spawns |-> <<>>, args |-> <<>>, err |-> "unsupported darwin target"]

\* lines 597-688: the platform and generator specific arguments
PlatformArgs(cfg, l) ==
    IF Contains(l.target, <<"windows", "gnu">>)
    THEN IF Contains(l.host, <<"windows">>) THEN MingwHostArgs(l.generator)
         ELSE MingwCrossArgs(cfg, l)
    ELSE IF l.msvc THEN MsvcArgs(cfg, l)
    ELSE IF Contains(l.target, <<"darwin">>) /\ ~defined(cfg, "CMAKE_OSX_ARCHITECTURES")
    THEN DarwinArgs(l.target)
    ELSE [ok |-> TRUE, spawns |-> <<>>, args |-> <<>>]

\* lines 689-691
GeneratorArgs(gen) ==
    IF IsSome(gen)
    THEN <<Arg("generator", "-G"), Arg("generator", GeneratorText(Unwrap(gen)))>>
    ELSE <<>>

\* lines 692-694
ToolsetArgs(cfg) ==
    IF IsSome(cfg.generator_toolset)
    THEN <<Arg("toolset", "-T"), Arg("toolset", Unwrap(cfg.generator_toolset))>>
    ELSE <<>>

\* the arguments for a list of numbered pairs
DefineArgsOf(ps) ==
    [i \in 1..Len(ps) |-> Arg("define", "-D" \o ps[i][2][1] \o "=" \o ps[i][2][2])]

\* a faulty loop: one argument per key, for the first pair of the key (a map, not a list)
DefineArgsPerKey(defines) ==
    DefineArgsOf(SelectSeq([i \in 1..Len(defines) |-> <<i, defines[i]>>],
                           LAMBDA p : \A j \in 1..(p[1] - 1) : defines[j][1] # p[2][1]))

\* lines 696-702: one argument for each pair of the defines list
DefineArgs(defines) ==
    [i \in 1..Len(defines) |-> Arg("define", "-D" \o defines[i][1] \o "=" \o defines[i][2])]

\* a faulty choice: no install prefix when the output directory was set by out_dir()
InstallPrefixArgsDefaultDir(cfg, dst) ==
    IF ~defined(cfg, "CMAKE_INSTALL_PREFIX") /\ cfg.out_dir = None
    THEN <<Arg("prefix", "-DCMAKE_INSTALL_PREFIX=" \o dst)>>
    ELSE <<>>

\* lines 704-708
InstallPrefixArgs(cfg, dst) ==
    IF ~defined(cfg, "CMAKE_INSTALL_PREFIX")
    THEN <<Arg("prefix", "-DCMAKE_INSTALL_PREFIX=" \o dst)>>
    ELSE <<>>

\* lines 710-719: the build type the flag variables are suffixed with
BuildTypeUpcase(cfg, prof) ==
    LET hits == {i \in 1..Len(cfg.defines) : cfg.defines[i][1] = "CMAKE_BUILD_TYPE"}
        first == CHOOSE i \in hits : \A j \in hits : i <= j
    IN  to_uppercase(IF hits = {} THEN prof ELSE cfg.defines[first][2])

\* the skip_arg closure: optimization-level and debug-symbol flags
skip_arg(arg) == StartsWith(arg, <<"-O">>) \/ StartsWith(arg, <<"/O">>) \/ arg = <<"-g">>

RECURSIVE FlagsText(_)
\* the kept compiler arguments, each after a space
FlagsText(args) ==
    IF args = <<>> THEN ""
    ELSE (IF skip_arg(Head(args)) THEN "" ELSE " " \o JoinWith(Head(args), ""))
         \o FlagsText(Tail(args))

\* lines 730-743: the CMAKE_<kind>_FLAGS define
FlagsArgs(cfg, kind, compiler, extra) ==
    LET flag_var == "CMAKE_" \o kind \o "_FLAGS"
    IN  IF ~defined(cfg, flag_var)
        THEN <<LangArg("flags", kind,
                       "-D" \o flag_var \o "=" \o extra \o FlagsText(compiler.args))>>
        ELSE <<>>

\* lines 752-768: the build-type-suffixed flags define
FlagsAltArgs(cfg, l, kind, compiler, extra, build_type_upcase) ==
    LET flag_var_alt == "CMAKE_" \o kind \o "_FLAGS_" \o build_type_upcase
    IN  IF l.generator = None /\ l.msvc /\ ~defined(cfg, flag_var_alt)
        THEN <<LangArg("flags", kind,
                       "-D" \o flag_var_alt \o "=" \o extra \o FlagsText(compiler.args))>>
        ELSE <<>>

\* a faulty define: the compiler path given on Windows for every MSVC target
CompilerArgsAnyMsvc(cfg, l, kind, compiler) ==
    LET tool_var == "CMAKE_" \o kind \o "_COMPILER"
    IN  IF /\ ~defined(cfg, "CMAKE_TOOLCHAIN_FILE")
           /\ ~defined(cfg, tool_var)
           /\ (FamilyOf(platform.os) # "windows" \/ l.msvc)
        THEN <<LangArg("compiler", kind, "-D" \o tool_var \o "=" \o find_exe(compiler.path))>>
        ELSE <<>>

\* lines 780-806: the CMAKE_<kind>_COMPILER define (the paths of the model hold no
\* backslash for the cfg(windows) block to replace)
CompilerArgs(cfg, l, kind, compiler) ==
    LET tool_var == "CMAKE_" \o kind \o "_COMPILER"
    IN  IF /\ ~defined(cfg, "CMAKE_TOOLCHAIN_FILE")
           /\ ~defined(cfg, tool_var)
           /\ (FamilyOf(platform.os) # "windows" \/ (l.msvc /\ IsNinja(l.generator)))
        THEN <<LangArg("compiler", kind, "-D" \o tool_var \o "=" \o find_exe(compiler.path))>>
        ELSE <<>>

\* a faulty closure: the compiler path of a language pushed before its flags
set_compiler_path_first(cfg, l, kind, compiler, extra, build_type_upcase) ==
    CompilerArgs(cfg, l, kind, compiler)
    \o FlagsArgs(cfg, kind, compiler, extra)
    \o FlagsAltArgs(cfg, l, kind, compiler, extra, build_type_upcase)

\* the set_compiler closure (lines 727-807)
set_compiler(cfg, l, kind, compiler, extra, build_type_upcase) ==
    FlagsArgs(cfg, kind, compiler, extra)
    \o FlagsAltArgs(cfg, l, kind, compiler, extra, build_type_upcase)
    \o CompilerArgs(cfg, l, kind, compiler)

\* lines 809-811
LanguageArgs(cfg, l, build_type_upcase) ==
    set_compiler(cfg, l, "C", l.c_compiler, cfg.cflags, build_type_upcase)
    \o set_compiler(cfg, l, "CXX", l.cxx_compiler, cfg.cxxflags, build_type_upcase)
    \o set_compiler(cfg, l, "ASM", l.asm_compiler, cfg.asmflags, build_type_upcase)

\* a faulty define: the build type given also when the caller defined one
BuildTypeArgsAlways(cfg, prof) == <<Arg("buildtype", "-DCMAKE_BUILD_TYPE=" \o prof)>>

\* lines 814-816
BuildTypeArgs(cfg, prof) ==
    IF ~defined(cfg, "CMAKE_BUILD_TYPE")
    THEN <<Arg("buildtype", "-DCMAKE_BUILD_TYPE=" \o prof)>>
    ELSE <<>>

\* lines 818-820
VerboseMakeArgs(cfg) ==
    IF cfg.verbose_make
    THEN <<Arg("verbosemake", "-DCMAKE_VERBOSE_MAKEFILE:BOOL=ON")>>
    ELSE <<>>

\* line 827
UserConfigureArgs(cfg) == [i \in 1..Len(cfg.configure_args) |-> Arg("user", cfg.configure_args[i])]

\* a faulty composition: the accumulated defines pushed before -G and -T
ConfigureArgsDefinesFirst(cfg, l, plat, prof) ==
    VerboseArgs(cfg)
    \o PathArgs(cfg)
    \o plat
    \o DefineArgs(cfg.defines)
    \o GeneratorArgs(l.generator)
    \o ToolsetArgs(cfg)
    \o InstallPrefixArgs(cfg, l.dst)
    \o LanguageArgs(cfg, l, BuildTypeUpcase(cfg, prof))
    \o BuildTypeArgs(cfg, prof)
    \o VerboseMakeArgs(cfg)

\* lines 587-820: the arguments build() pushes after the ones the command was made with
ConfigureArgs(cfg, l, plat, prof) ==
    VerboseArgs(cfg)
    \o PathArgs(cfg)
    \o plat
    \o GeneratorArgs(l.generator)
    \o ToolsetArgs(cfg)
    \o DefineArgs(cfg.defines)
    \o InstallPrefixArgs(cfg, l.dst)
    \o LanguageArgs(cfg, l, BuildTypeUpcase(cfg, prof))
    \o BuildTypeArgs(cfg, prof)
    \o VerboseMakeArgs(cfg)

\* a faulty decision: the cache-marker file is not looked at
SkipConfigureWithoutCache(cfg, disk) == ~cfg.always_configure

\* line 826: whether the configure step is skipped
SkipConfigure(cfg, disk) == ~(cfg.always_configure \/ ~disk.cache.exists)

\* the build directory after a successful configure run of the external tool
AfterConfigure(disk, src) ==
    [disk EXCEPT
        !.cache = [exists |-> TRUE, readable |-> TRUE,
                   lines |-> <<[key |-> <<"CMAKE_HOME_DIRECTORY", ":INTERNAL">>,
                                rest |-> <<UnwrapOr(canonicalize(src), src)>>]>>],
        !.makefile = @ \/ tool.makes_makefile]

\* a faulty step: the outcome of the configure subprocess is not looked at
ConfigureRunUnchecked(cfg, l, disk, cmd, spawns, skip) ==
    IF skip
    THEN [ok |-> TRUE, l |-> l, cmd |-> cmd, spawns |-> spawns, disk |-> disk]
    ELSE [ok |-> TRUE,
          l |-> l,
          cmd |-> [cmd EXCEPT !.args = @ \o UserConfigureArgs(cfg),
                              !.env = cfg.env \o <<<<"CMAKE_PREFIX_PATH", l.cmake_prefix_path>>>>],
          spawns |-> Append(spawns, "configure"),
          disk |-> IF tool.configure_spawns /\ tool.configure_ok
                   THEN AfterConfigure(disk, cfg.path) ELSE disk]

\* lines 826-831: the configure step, run or skipped, for the command composed so far
ConfigureRun(cfg, l, disk, cmd, spawns, skip) ==
    IF skip
    THEN [ok |-> TRUE, l |-> l, cmd |-> cmd, spawns |-> spawns, disk |-> disk]
    ELSE [ok |-> tool.configure_spawns /\ tool.configure_ok,
          l |-> [l EXCEPT !.panic = IF tool.configure_spawns /\ tool.configure_ok THEN ""
                                    ELSE IF tool.configure_spawns
                                    THEN "command did not execute successfully"
                                    ELSE "failed to execute command"],
          cmd |-> [cmd EXCEPT !.args = @ \o UserConfigureArgs(cfg),
                              !.env = cfg.env \o <<<<"CMAKE_PREFIX_PATH", l.cmake_prefix_path>>>>],
          spawns |-> Append(spawns, "configure"),
          disk |-> IF tool.configure_spawns /\ tool.configure_ok
                   THEN AfterConfigure(disk, cfg.path) ELSE disk]

\* lines 587-825, for the platform arguments plat and the profile profO
ConfigureCompose(cfg, l0, disk, cmd0, plat, profO) ==
    IF ~plat.ok \/ profO = None
    THEN [ok |-> FALSE,
          l |-> [l0 EXCEPT !.panic = IF ~plat.ok THEN plat.err
                                     ELSE "environment variable not defined"],
          cmd |-> cmd0, spawns |-> plat.spawns, disk |-> disk]
    ELSE ConfigureRun(cfg,
                      [l0 EXCEPT !.is_ninja = IsNinja(l0.generator),
                                 !.profile = Unwrap(profO),
                                 !.checked = TRUE,
                                 !.cache_at_check = disk.cache.exists,
                                 !.skipped = SkipConfigure(cfg, disk)],
                      disk,
                      [cmd0 EXCEPT !.cwd = l0.dst \o "/build",
                                   !.args = @ \o ConfigureArgs(cfg, l0, plat.args, Unwrap(profO))],
                      plat.spawns,
                      SkipConfigure(cfg, disk))

\* lines 587-831 of build(): the configure command and whether it ran; ok is FALSE
\* where build() panicked
ConfigureFrame(cfg, l0, disk, cmd0) ==
    ConfigureCompose(cfg, l0, disk, cmd0, PlatformArgs(cfg, l0), get_profile(cfg))

\* build(), from the version probe to the end of the configure step
BuildConfigure ==
    /\ pc = "configure"
    /\ \E f \in {ConfigureFrame(config, locals, fs, configure_cmd)} :
           /\ locals' = f.l
           /\ configure_cmd' = f.cmd
           /\ spawned' = spawned \o f.spawns
           /\ fs' = f.disk
           /\ pc' = IF f.ok THEN "build" ELSE "panicked"
    /\ UNCHANGED <<config, environ, platform, tool, build_cmd, ncalls, parse_in, parse_out>>

----------------------------------------------------------------------------
(* Config::build: the jobserver bridge and the build command. *)

\* uses_named_pipe_jobserver; a MAKEFLAGS value is the sequence of its pieces
uses_named_pipe_jobserver(makeflags) == Contains(makeflags, <<"--jobserver-auth=fifo:">>)

\* a faulty bridge: macOS excluded whatever the jobserver is made of
UseJobserverNeverOnMac(disk) ==
    /\ disk.makefile
    /\ IsSome(var_os("CARGO_MAKEFLAGS"))
    /\ platform.os \notin {"windows", "openbsd", "netbsd", "freebsd", "dragonfly", "macos"}

\* lines 842-867: whether CARGO_MAKEFLAGS is forwarded to the build as MAKEFLAGS
UseJobserver(disk) ==
    LET makeflags == var_os("CARGO_MAKEFLAGS")
    IN  /\ disk.makefile
        /\ IsSome(makeflags)
        /\ ~(\/ platform.os = "windows"
             \/ platform.os = "openbsd"
             \/ platform.os = "netbsd"
             \/ platform.os = "freebsd"
             \/ platform.os = "dragonfly"
             \/ (platform.os = "macos" /\ ~uses_named_pipe_jobserver(Unwrap(makeflags))))

\* line 870
JobsArgs == <<Arg("jobs", "-j"), Arg("jobs", "4")>>

\* a faulty choice: --target left out when no build target was named
TargetArgsNamedOnly(cfg) ==
    IF ~cfg.no_build_target /\ IsSome(cfg.cmake_target)
    THEN <<Arg("target", "--target"), Arg("target", Unwrap(cfg.cmake_target))>>
    ELSE <<>>

\* lines 872-878
TargetArgs(cfg) ==
    IF ~cfg.no_build_target
    THEN <<Arg("target", "--target"), Arg("target", UnwrapOr(cfg.cmake_target, "install"))>>
    ELSE <<>>

\* lines 884-889
ParallelArgs(version, use_jobserver) ==
    IF VersionGe(version, VersionNew(3, 12)) /\ ~use_jobserver /\ IsSome(var_os("NUM_JOBS"))
    THEN <<Arg("parallel", "--parallel"), Arg("parallel", Unwrap(var_os("NUM_JOBS")))>>
    ELSE <<>>

\* lines 891-893
UserBuildArgs(cfg) ==
    IF cfg.build_args # <<>>
    THEN <<Arg("user", "--")>> \o [i \in 1..Len(cfg.build_args) |-> Arg("user", cfg.build_args[i])]
    ELSE <<>>

\* lines 869-893: the arguments build() pushes after the ones the command was made with
BuildArgs(cfg, l, use_jobserver) ==
    <<Arg("build", "--build"), Arg("build", ".")>>
    \o JobsArgs
    \o TargetArgs(cfg)
    \o <<Arg("config", "--config"), Arg("config", l.profile)>>
    \o ParallelArgs(l.version, use_jobserver)
    \o UserBuildArgs(cfg)

\* lines 834-893, for the Command bc made and the decision of the jobserver bridge
BuildCompose(cfg, l0, disk, bc, use_jobserver) ==
    [cfg |-> [cfg EXCEPT !.env_cache = bc.cache],
     l |-> [l0 EXCEPT !.use_jobserver = use_jobserver, !.makefile_at_check = disk.makefile],
     cmd |-> [bc.cmd EXCEPT
                 !.cwd = l0.dst \o "/build",
                 !.env = cfg.env \o (IF use_jobserver
                                     THEN <<<<"MAKEFLAGS", Unwrap(var_os("CARGO_MAKEFLAGS"))>>>>
                                     ELSE <<>>),
                 !.args = @ \o BuildArgs(cfg, l0, use_jobserver)]]

\* lines 833-895 of build(): the build command
BuildFrame(cfg, l0, disk) ==
    BuildCompose(cfg, l0, disk,
                 cmake_command(cfg.env_cache, l0.target, l0.host, "EMMAKE", "emmake"),
                 UseJobserver(disk))

\* build(), from the end of the configure step to its return
BuildBuild ==
    /\ pc = "build"
    /\ \E f \in {BuildFrame(config, locals, fs)} :
           /\ config' = f.cfg
           /\ locals' = f.l
           /\ build_cmd' = f.cmd
           /\ spawned' = Append(spawned, "build")
           /\ pc' = IF tool.build_spawns /\ tool.build_ok THEN "done" ELSE "panicked"
    /\ UNCHANGED <<environ, platform, fs, tool, configure_cmd, ncalls, parse_in, parse_out>>

----------------------------------------------------------------------------
(* Environments, disks and tools the specifications start from. *)

\* a variable that is set when o is Some
OptVar(name, o) == IF IsSome(o) THEN (name :> Unwrap(o)) ELSE <<>>

\* the environment Cargo gives a build script for target tgt on host hst
CargoEnv(tgt, hst) ==
    ("TARGET" :> tgt) @@ ("HOST" :> hst) @@ ("OUT_DIR" :> OutDir)
    @@ ("PROFILE" :> "release") @@ ("OPT_LEVEL" :> "3") @@ ("DEBUG" :> "false")
    @@ ("CARGO_CFG_TARGET_OS" :> CargoCfgOs(tgt))
    @@ ("CARGO_CFG_TARGET_ARCH" :> CargoCfgArch(tgt))

\* a cache line recording home directory p
HomeLine(p) == [key |-> <<"CMAKE_HOME_DIRECTORY", ":INTERNAL">>, rest |-> <<p>>]

NoCache == [exists |-> FALSE, readable |-> FALSE, lines |-> <<>>]
CacheOf(lines) == [exists |-> TRUE, readable |-> TRUE, lines |-> lines]

\* a build directory that was never configured, and one configured from home p
FreshDisk == [dir |-> FALSE, cache |-> NoCache, makefile |-> FALSE]
ConfiguredDisk(p, mk) == [dir |-> TRUE, cache |-> CacheOf(<<HomeLine(p)>>), makefile |-> mk]

\* the text `cmake --version` prints for a version
VersionOutput(v) == VersionPrefix \o v \o <<"\n", "\n", "C", "M", "a", "k", "e">>

\* a tool-chain in which every subprocess starts and succeeds
GoodTool ==
    [version |-> [spawns |-> TRUE, success |-> TRUE, utf8 |-> TRUE,
                  stdout |-> VersionOutput(<<"3", ".", "2", "5", ".", "1">>)],
     vs_version |-> "Vs17", has_msys2 |-> FALSE, has_mingw32 |-> TRUE,
     configure_spawns |-> TRUE, configure_ok |-> TRUE, makes_makefile |-> TRUE,
     build_spawns |-> TRUE, build_ok |-> TRUE]

\* the state after Config::new(p) in environment e on a disk d
InitAt(p, e, os, d, t) ==
    /\ config = NewConfig(p)
    /\ environ = e
    /\ platform = [os |-> os]
    /\ fs = d
    /\ tool = t
    /\ pc = "setup"
    /\ locals = NoLocals
    /\ configure_cmd = NewCommand("")
    /\ build_cmd = NewCommand("")
    /\ spawned = <<>>
    /\ ncalls = 0
    /\ parse_in = <<>>
    /\ parse_out = None

\* the state after Config::new(SourcePath)
InitWith(e, os, d, t) == InitAt(SourcePath, e, os, d, t)

----------------------------------------------------------------------------
(* SpecConfigure: the configure command of build(). *)

ConfigureTriples == {<<LinuxTriple, LinuxTriple>>, <<MsvcTriple, MsvcTriple>>,
                     <<DarwinTriple, LinuxTriple>>}

ConfigureDefines == {<<"K", "1">>, <<"K", "2">>, <<"CMAKE_INSTALL_PREFIX", "/opt">>,
                     <<"CMAKE_CXX_FLAGS", "-w">>, <<"CMAKE_C_COMPILER", "clang">>}

\* the build directories: never configured, or configured before from this source
ConfigureDisks(th) ==
    IF th[1] = LinuxTriple THEN {FreshDisk, ConfiguredDisk(SourcePath, TRUE)} ELSE {FreshDisk}

InitConfigure ==
    \E th \in ConfigureTriples, g \in {None, Some(<<"Ninja">>)} :
        \E d \in ConfigureDisks(th) :
            InitWith(CargoEnv(th[1], th[2]) @@ OptVar("CMAKE_GENERATOR", g),
                     CfgOsOf(th[2]), d, GoodTool)

NextConfigure ==
    \/ \E kv \in ConfigureDefines : define(kv[1], kv[2])
    \/ generator(<<"NMake", "Makefiles">>)
    \/ generator_toolset("ClangCL")
    \/ very_verbose(TRUE)
    \/ configure_arg("-Wno-dev")
    \/ always_configure(FALSE)
    \/ BuildBegin
    \/ BuildConfigure
    \/ BuildBuild

SpecConfigure == InitConfigure /\ [][NextConfigure]_vars

----------------------------------------------------------------------------
(* Properties of the configure command. *)

\* the configure command is composed in these states
ConfigureComposed == pc \in {"build", "done"}

\* the arguments with one of the tags gs, in their order, and their texts
Tagged(args, gs) == SelectSeq(args, LAMBDA a : a.g \in gs)
Texts(args) == [i \in 1..Len(args) |-> args[i].s]

\* the position of an argument group in the order of section 4.3 of the specification
ConfigureRank(g) ==
    CASE g = "wrapper" -> 0
      [] g = "verbose" -> 1
      [] g = "path" -> 2
      [] g = "platform" -> 3
      [] g = "generator" -> 4
      [] g = "toolset" -> 5
      [] g = "define" -> 6
      [] g = "prefix" -> 7
      [] g \in {"flags", "compiler"} -> 8
      [] g = "buildtype" -> 10
      [] g = "verbosemake" -> 11
      [] g = "user" -> 12

\* C1: the arguments of the configure command come in the order verbose flags, source
\* path, platform arguments, -G, -T, the accumulated defines, the install prefix, the
\* per-language flags and compiler defines, the build type, the verbose-makefile define,
\* the user's arguments: no argument of a later group precedes one of an earlier group,
\* and each group is there when its condition holds and holds what the configuration says.
C1_ConfigureOrder ==
    ConfigureComposed =>
        /\ \A i, j \in 1..Len(configure_cmd.args) :
               i < j => ConfigureRank(configure_cmd.args[i].g)
                            <= ConfigureRank(configure_cmd.args[j].g)
        /\ (Tagged(configure_cmd.args, {"verbose"}) # <<>>) <=> config.verbose_cmake
        /\ Texts(Tagged(configure_cmd.args, {"path"})) = <<config.path>>
        /\ Texts(Tagged(configure_cmd.args, {"generator"}))
             = (IF IsSome(locals.generator)
                THEN <<"-G", GeneratorText(Unwrap(locals.generator))>> ELSE <<>>)
        /\ Texts(Tagged(configure_cmd.args, {"toolset"}))
             = (IF IsSome(config.generator_toolset)
                THEN <<"-T", Unwrap(config.generator_toolset)>> ELSE <<>>)
        /\ Len(Tagged(configure_cmd.args, {"define"})) = Len(config.defines)
        /\ (Tagged(configure_cmd.args, {"verbosemake"}) # <<>>) <=> config.verbose_make
        /\ Texts(Tagged(configure_cmd.args, {"user"}))
             = (IF locals.skipped THEN <<>> ELSE config.configure_args)

\* a configure command that ran with an argument of every group
C1_Witness ==
    /\ pc = "done"
    /\ ~locals.skipped
    /\ \A r \in (1..12) \ {9} :
           \E i \in 1..Len(configure_cmd.args) : ConfigureRank(configure_cmd.args[i].g) = r
    /\ \E i \in 1..Len(configure_cmd.args) : configure_cmd.args[i].g = "compiler"

\* the arguments of the set_compiler closure
LanguageTagged == Tagged(configure_cmd.args, {"flags", "compiler"})

\* the order build() handles the languages in
LanguageRank(kind) == CASE kind = "C" -> 1 [] kind = "CXX" -> 2 [] kind = "ASM" -> 3

\* C2 (as stated): every per-language flags define comes before every compiler-path define.
C2_FlagsBeforeAllCompilers ==
    ConfigureComposed =>
        \A i, j \in 1..Len(LanguageTagged) :
            (LanguageTagged[i].g = "compiler" /\ LanguageTagged[j].g = "flags") => j < i

\* C2 (amended): the languages are handled one after the other, C, CXX, ASM, and within
\* one language its flags defines come before its compiler-path define; the compiler-path
\* define of a language so precedes the flags defines of the later languages.
C2_FlagsBeforeCompilerPerLanguage ==
    ConfigureComposed =>
        \A i, j \in 1..Len(LanguageTagged) :
            i < j =>
                /\ LanguageRank(LanguageTagged[i].kind) <= LanguageRank(LanguageTagged[j].kind)
                /\ LanguageTagged[i].kind = LanguageTagged[j].kind
                       => ~(LanguageTagged[i].g = "compiler" /\ LanguageTagged[j].g = "flags")

\* a configure command with the compiler path of C before the flags of CXX, themselves
\* before the compiler path of CXX
C2_Witness ==
    /\ pc = "done"
    /\ \E i, j, k \in 1..Len(LanguageTagged) :
           /\ i < j /\ j < k
           /\ LanguageTagged[i].g = "compiler" /\ LanguageTagged[i].kind = "C"
           /\ LanguageTagged[j].g = "flags" /\ LanguageTagged[j].kind = "CXX"
           /\ LanguageTagged[k].g = "compiler" /\ LanguageTagged[k].kind = "CXX"

\* the keys define() may be called with in SpecConfigure, and two never defined
DefineKeys == {kv[1] : kv \in ConfigureDefines} \cup {"CMAKE_BUILD_TYPE", "CMAKE_ASM_FLAGS"}

\* C3: defined(K) holds exactly when at least one pair with key K has been appended,
\* and the configure command has one -Dkey=value argument per accumulated pair, in
\* insertion order, duplicates of a key included.
C3_Defines ==
    /\ \A K \in DefineKeys :
           defined(config, K)
               <=> Cardinality({i \in 1..Len(config.defines) : config.defines[i][1] = K}) >= 1
    /\ ConfigureComposed =>
           /\ Len(Tagged(configure_cmd.args, {"define"})) = Len(config.defines)
           /\ \A i \in 1..Len(config.defines) :
                  Tagged(configure_cmd.args, {"define"})[i].s
                      = "-D" \o config.defines[i][1] \o "=" \o config.defines[i][2]

\* a key defined twice, both pairs in the configure command in the order of the calls
C3_Witness ==
    /\ pc = "done"
    /\ defined(config, "K")
    /\ ~defined(config, "CMAKE_INSTALL_PREFIX")
    /\ \E i, j \in 1..Len(configure_cmd.args) :
           /\ i < j
           /\ configure_cmd.args[i].s = "-DK=2"
           /\ configure_cmd.args[j].s = "-DK=1"

\* C4: the configure subprocess is skipped exactly when always_configure is false and
\* CMakeCache.txt exists in the build directory at the time of the check; build() then
\* goes on to the build step, and in every other case it runs the configure subprocess.
C4_SkipConfigure ==
    locals.checked =>
        /\ (\A i \in 1..Len(spawned) : spawned[i] # "configure")
               <=> (~config.always_configure /\ locals.cache_at_check)
        /\ (~config.always_configure /\ locals.cache_at_check) => pc \in {"build", "done"}
        /\ pc = "done" => spawned[Len(spawned)] = "build"

\* a build that skipped the configure subprocess and ran the build subprocess
C4_Witness ==
    /\ pc = "done"
    /\ locals.checked
    /\ ~config.always_configure
    /\ locals.cache_at_check
    /\ "configure" \notin Range(spawned)
    /\ "build" \in Range(spawned)

----------------------------------------------------------------------------
(* SpecBuildCmd: the build command of build(). *)

BuildTriples == {<<LinuxTriple, LinuxTriple>>, <<DarwinTriple, DarwinTriple>>,
                 <<FreeBsdTriple, FreeBsdTriple>>, <<EmscriptenTriple, LinuxTriple>>}

\* what `cmake --version` answers: versions below, at and above 3.12, one of a later
\* major, a text that is no version, and a failing exit status
BuildVersions ==
    {[GoodTool.version EXCEPT !.stdout = VersionOutput(v)] :
        v \in {<<"3", ".", "2", "5", ".", "1">>, <<"3", ".", "1", "1", ".", "4">>,
               <<"3", ".", "1", "2">>, <<"4", ".", "0", ".", "0">>}}
    \cup {[GoodTool.version EXCEPT !.stdout = <<"c", "m", "a", "k", "e", "3">>],
          [GoodTool.version EXCEPT !.success = FALSE]}

\* CARGO_MAKEFLAGS: unset, a jobserver of file descriptors, a jobserver on a named pipe
BuildMakeflags ==
    {None,
     Some(<<"-j", " ", "--jobserver-fds=", "8,9", " ", "--jobserver-auth=", "8,9">>),
     Some(<<"-j", " ", "--jobserver-auth=fifo:", "/tmp/js">>)}

InitBuildCmd ==
    \E th \in BuildTriples, v \in BuildVersions, n \in {None, Some("8")},
       m \in BuildMakeflags, mk \in BOOLEAN :
        InitWith(CargoEnv(th[1], th[2]) @@ OptVar("NUM_JOBS", n) @@ OptVar("CARGO_MAKEFLAGS", m),
                 CfgOsOf(th[2]), FreshDisk,
                 [GoodTool EXCEPT !.version = v, !.makes_makefile = mk])

NextBuildCmd ==
    \/ build_target("all")
    \/ no_build_target(TRUE)
    \/ build_arg("-v")
    \/ BuildBegin
    \/ BuildConfigure
    \/ BuildBuild

SpecBuildCmd == InitBuildCmd /\ [][NextBuildCmd]_vars

----------------------------------------------------------------------------
(* Properties of the build command. *)

\* the build command is composed in these states
BuildComposed == "build" \in Range(spawned)

\* the arguments build() pushed on the build command, after the ones it was made with
BuildPushed == SelectSeq(build_cmd.args, LAMBDA a : a.g # "wrapper")

\* the build subprocess is given the MAKEFLAGS of the jobserver
JobserverForwarded == \E i \in 1..Len(build_cmd.env) : build_cmd.env[i][1] = "MAKEFLAGS"

\* the build command has --parallel followed by n
HasParallel(n) ==
    \E i \in 1..(Len(build_cmd.args) - 1) :
        build_cmd.args[i].s = "--parallel" /\ build_cmd.args[i + 1].s = n

C6_NoJobsWithJobserver ==
    (BuildComposed /\ JobserverForwarded) =>
        /\ "-j" \notin Range(Texts(build_cmd.args))
        /\ "--parallel" \notin Range(Texts(build_cmd.args))

\* the position of an argument group in the build command
BuildRank(g) ==
    CASE g = "wrapper" -> 0
      [] g = "build" -> 1
      [] g = "jobs" -> 2
      [] g = "target" -> 3
      [] g = "config" -> 4
      [] g = "parallel" -> 5
      [] g = "user" -> 6

\* C7: the build command is `--build .`, `-j 4`, `--target <name>`, `--config <profile>`,
\* `--parallel <N>` when applicable, then the user's build arguments, in this order;
\* <name> is the build_target setting or "install", and --target and its value are
\* both absent exactly when no_build_target is set.
C7_BuildOrder ==
    BuildComposed =>
        /\ \A i, j \in 1..Len(build_cmd.args) :
               i < j => BuildRank(build_cmd.args[i].g) <= BuildRank(build_cmd.args[j].g)
        /\ SubSeq(Texts(BuildPushed), 1, 4) = <<"--build", ".", "-j", "4">>
        /\ Texts(Tagged(build_cmd.args, {"target"}))
             = (IF config.no_build_target THEN <<>>
                ELSE <<"--target", IF config.cmake_target = None THEN "install"
                                   ELSE config.cmake_target[1]>>)
        /\ ("--target" \in Range(Texts(build_cmd.args))) <=> ~config.no_build_target
        /\ Texts(Tagged(build_cmd.args, {"config"})) = <<"--config", locals.profile>>
        /\ Tagged(build_cmd.args, {"parallel"}) # <<>> => HasParallel(environ["NUM_JOBS"])
        /\ Texts(Tagged(build_cmd.args, {"user"}))
             = (IF config.build_args = <<>> THEN <<>> ELSE <<"--">> \o config.build_args)

\* a build command with every group, the default target name in it
C7_Witness ==
    /\ pc = "done"
    /\ config.cmake_target = None
    /\ Texts(BuildPushed) = <<"--build", ".", "-j", "4", "--target", "install",
                              "--config", "Release", "--parallel", "8", "--", "-v">>

----------------------------------------------------------------------------
(* SpecCache: build() over build directories left by earlier runs. *)

\* the source directories: plain, through a symbolic link, and with '=' in its name
CachePaths == {"/src", "/lnk", "/a=b/src"}

\* lines of CMakeCache.txt: the home directory recorded as the source, as a link to it,
\* as another directory, as a directory that is gone, as a directory with '=' in its
\* name; another entry; the key with nothing after it
CacheLines ==
    {HomeLine("/src"), HomeLine("/lnk"), HomeLine("/old"), HomeLine("/gone"),
     [key |-> <<"CMAKE_HOME_DIRECTORY", ":INTERNAL">>, rest |-> <<"/a", "b/src">>],
     [key |-> <<"CMAKE_BUILD_TYPE", ":STRING">>, rest |-> <<"Release">>],
     [key |-> <<"CMAKE_HOME_DIRECTORY">>, rest |-> <<>>]}

\* the sequences over S of length at most n
SeqsUpTo(S, n) == UNION {[1..k -> S] : k \in 0..n}

\* the build directories: absent, empty, with a cache file that cannot be read, and
\* with a cache file of at most MaxLines lines
CacheDisks ==
    {FreshDisk, [FreshDisk EXCEPT !.dir = TRUE],
     [dir |-> TRUE, cache |-> [exists |-> TRUE, readable |-> FALSE, lines |-> <<>>],
      makefile |-> FALSE]}
    \cup {[dir |-> TRUE, cache |-> CacheOf(ls), makefile |-> TRUE] :
            ls \in SeqsUpTo(CacheLines, MaxLines)}

InitCache ==
    \E p \in CachePaths, d \in CacheDisks :
        InitAt(p, CargoEnv(LinuxTriple, LinuxTriple), "linux", d, GoodTool)

NextCache ==
    \/ always_configure(FALSE)
    \/ BuildBegin
    \/ BuildConfigure
    \/ BuildBuild

SpecCache == InitCache /\ [][NextCache]_vars

\* the value a cache line records: the text after its first '='
RecordedValue(line) == JoinWith(line.rest, "=")

\* the first line of a cache file with the home-directory key
FirstHome(lines) ==
    lines[CHOOSE i \in 1..Len(lines) :
              /\ IsHomeLine(lines[i])
              /\ \A j \in 1..(i - 1) : ~IsHomeLine(lines[j])]

\* the condition the specification gives for deleting the build directory
StaleHome(disk, src) ==
    /\ disk.cache.exists
    /\ \E i \in 1..Len(disk.cache.lines) : IsHomeLine(disk.cache.lines[i])
    /\ \/ canonicalize(RecordedValue(FirstHome(disk.cache.lines))) = None
       \/ canonicalize(RecordedValue(FirstHome(disk.cache.lines)))
              # Some(UnwrapOr(canonicalize(src), src))

\* C8 (as stated): maybe_clear deletes the build directory exactly when the cache file
\* exists, has the home-directory key, and the canonicalized recorded value differs
\* from the canonicalized source path or cannot be canonicalized; without a cache file
\* build() only creates the build directory.
C8_ClearIffStale ==
    [][(pc = "setup" /\ pc' = "configure") =>
          /\ locals'.cleared <=> StaleHome(fs, config.path)
          /\ ~fs.cache.exists => fs' = create_dir_all(fs)]_vars

----------------------------------------------------------------------------
(* SpecParse: Version::parse over the texts a tool may print. *)

\* the characters the enumerated texts are made of
ParseChars == {"3", "1", ".", "x", "+", "\n"}

\* texts that are longer than the enumerated ones: the output of cmake 3.22.2, a major
\* that does not fit u32, a line ended by "\r\n", a version of four components
ParseExamples ==
    {VersionOutput(<<"3", ".", "2", "2", ".", "2">>),
     VersionPrefix \o <<"4", "2", "9", "4", "9", "6", "7", "2", "9", "6", ".", "1", ".", "0">>,
     VersionPrefix \o <<"3", ".", "5", "\r", "\n">>,
     VersionPrefix \o <<"0", "3", ".", "2", "8", ".", "0", ".", "r", "c", "1">>}

\* the texts parsed: with and without the prefix, a body of at most MaxBody characters
ParseInputs ==
    ParseExamples
    \cup {pre \o body : pre \in {<<>>, VersionPrefix}, body \in SeqsUpTo(ParseChars, MaxBody)}

InitParse ==
    \E s \in ParseInputs :
        /\ config = NewConfig(SourcePath)
        /\ environ = CargoEnv(LinuxTriple, LinuxTriple)
        /\ platform = [os |-> "linux"]
        /\ fs = FreshDisk
        /\ tool = GoodTool
        /\ pc = "parse"
        /\ locals = NoLocals
        /\ configure_cmd = NewCommand("")
        /\ build_cmd = NewCommand("")
        /\ spawned = <<>>
        /\ ncalls = 0
        /\ parse_in = s
        /\ parse_out = None

\* Version::parse(parse_in)
ParseVersion ==
    /\ pc = "parse"
    /\ parse_out' = VersionParse(parse_in)
    /\ pc' = "parsed"
    /\ UNCHANGED <<config, environ, platform, fs, tool, locals, configure_cmd, build_cmd,
                   spawned, ncalls, parse_in>>

NextParse == ParseVersion

SpecParse == InitParse /\ [][NextParse]_vars

\* all the pieces of s between the separators c
RECURSIVE SplitAll(_, _)
SplitAll(s, c) ==
    IF IndexOf(s, c) = 0 THEN <<s>>
    ELSE <<SubSeq(s, 1, IndexOf(s, c) - 1)>> \o SplitAll(SubSeq(s, IndexOf(s, c) + 1, Len(s)), c)

\* the '.'-separated components after the prefix on the first line of s; none when
\* there is no first line or it does not start with the prefix
VersionComponents(s) ==
    IF IsSome(first_line(s)) /\ StartsWith(Unwrap(first_line(s)), VersionPrefix)
    THEN SplitAll(SubSeq(Unwrap(first_line(s)), Len(VersionPrefix) + 1,
                         Len(Unwrap(first_line(s)))), ".")
    ELSE <<>>

\* C9 (as stated): a version is parsed only from a first line that has the prefix and
\* exactly the three components major/minor/patch, the first two unsigned integers;
\* every other input yields no parsed version (and so the default).
C9_ThreeComponentsOnly ==
    pc = "parsed" =>
        (IsSome(parse_out)
            <=> /\ Len(VersionComponents(parse_in)) = 3
                /\ IsSome(parse_u32(VersionComponents(parse_in)[1]))
                /\ IsSome(parse_u32(VersionComponents(parse_in)[2])))

\* C9 (amended): a version is parsed exactly when the first line has the prefix and the
\* rest has at least two '.'-separated components of which the first two are u32
\* numbers; it is then (major, minor) of these two, whatever follows them; every
\* other input yields no parsed version (and so the default).
C9_TwoComponentsSuffice ==
    pc = "parsed" =>
        /\ IsSome(parse_out)
               <=> /\ Len(VersionComponents(parse_in)) >= 2
                   /\ IsSome(parse_u32(VersionComponents(parse_in)[1]))
                   /\ IsSome(parse_u32(VersionComponents(parse_in)[2]))
        /\ IsSome(parse_out)
               => /\ Some(Unwrap(parse_out).major) = parse_u32(VersionComponents(parse_in)[1])
                  /\ Some(Unwrap(parse_out).minor) = parse_u32(VersionComponents(parse_in)[2])

\* "cmake version 3.1", of two components, parsed as (3, 1)
C9_Witness ==
    /\ pc = "parsed"
    /\ parse_in = VersionPrefix \o <<"3", ".", "1">>
    /\ parse_out = Some(VersionNew(3, 1))

----------------------------------------------------------------------------
(* SpecPlatform: the platform defines build() injects. *)

\* TARGET and HOST of the environment: native builds, one of them on redox, and
\* cross builds
PlatformTriples == {<<LinuxTriple, LinuxTriple>>, <<RedoxTriple, RedoxTriple>>,
                    <<DarwinTriple, LinuxTriple>>, <<FreeBsdTriple, LinuxTriple>>}

InitPlatform ==
    \E th \in PlatformTriples, tc \in {None, Some("/env.cmake")} :
        InitWith(CargoEnv(th[1], th[2]) @@ OptVar("CMAKE_TOOLCHAIN_FILE", tc),
                 CfgOsOf(th[2]), FreshDisk, GoodTool)

NextPlatform ==
    \/ \E t \in {RedoxTriple, DarwinTriple} : target(t)
    \/ \E h \in {RedoxTriple, DarwinTriple} : host(h)
    \/ define("CMAKE_SYSTEM_NAME", "Custom")
    \/ define("CMAKE_TOOLCHAIN_FILE", "/user.cmake")
    \/ BuildBegin
    \/ BuildConfigure
    \/ BuildBuild

SpecPlatform == InitPlatform /\ [][NextPlatform]_vars

\* the defines build() appended to the ones the caller gave
Injected == SubSeq(config.defines, locals.given_defines + 1, Len(config.defines))

\* build() is past its platform defines with target and host resolved to one triple
NativeBuild == pc \in {"configure", "build", "done"} /\ locals.target = locals.host

\* C10 (as stated): when the resolved target equals the resolved host, build() injects
\* neither CMAKE_SYSTEM_NAME nor CMAKE_SYSTEM_PROCESSOR.
C10_NoSystemDefines ==
    NativeBuild =>
        \A i \in 1..Len(Injected) :
            Injected[i][1] \notin {"CMAKE_SYSTEM_NAME", "CMAKE_SYSTEM_PROCESSOR"}

\* C10 (amended): when the resolved target equals the resolved host, build() injects no
\* CMAKE_SYSTEM_PROCESSOR, and injects CMAKE_SYSTEM_NAME only as "Generic" for a target
\* that contains "redox", with no toolchain file given by a define or the environment
\* and no CMAKE_SYSTEM_NAME defined by the caller; for such a target it does inject it.
C10_NoSystemDefinesButRedox ==
    NativeBuild =>
        /\ \A i \in 1..Len(Injected) : Injected[i][1] # "CMAKE_SYSTEM_PROCESSOR"
        /\ (\E i \in 1..Len(Injected) : Injected[i][1] = "CMAKE_SYSTEM_NAME")
               <=> /\ "redox" \in Range(locals.target)
                   /\ "CMAKE_TOOLCHAIN_FILE" \notin DOMAIN environ
                   /\ \A j \in 1..locals.given_defines :
                          config.defines[j][1] \notin {"CMAKE_TOOLCHAIN_FILE", "CMAKE_SYSTEM_NAME"}
        /\ \A i \in 1..Len(Injected) :
               Injected[i][1] = "CMAKE_SYSTEM_NAME" => Injected[i][2] = "Generic"

\* a finished build for redox on redox, with CMAKE_SYSTEM_NAME=Generic injected
C10_Witness ==
    /\ pc = "done"
    /\ locals.target = RedoxTriple
    /\ locals.host = RedoxTriple
    /\ Injected = <<<<"CMAKE_SYSTEM_NAME", "Generic">>>>

----------------------------------------------------------------------------
(* SpecSystem: the system name and processor of a cross build. *)

\* CARGO_CFG_TARGET_OS: the systems of the table, and two it does not have
SystemOses ==
    {"android", "dragonfly", "macos", "freebsd", "fuchsia", "haiku", "ios", "linux",
     "netbsd", "openbsd", "solaris", "tvos", "visionos", "watchos", "windows", "none",
     "hurd", "aix"}

\* CARGO_CFG_TARGET_ARCH
SystemArches ==
    {"aarch64", "x86_64", "x86", "arm", "powerpc", "powerpc64", "powerpc64le", "riscv64"}

\* a cross build on a linux host for the target of an architecture and a system
InitSystem ==
    \E os \in SystemOses, arch \in SystemArches :
        InitWith(("CARGO_CFG_TARGET_OS" :> os) @@ ("CARGO_CFG_TARGET_ARCH" :> arch)
                     @@ CargoEnv(<<arch, "unknown", os>>, LinuxTriple),
                 "linux", FreshDisk, GoodTool)

NextSystem ==
    \/ define("CMAKE_SYSTEM_NAME", "Custom")
    \/ define("CMAKE_TOOLCHAIN_FILE", "/user.cmake")
    \/ host(RedoxTriple)
    \/ BuildBegin
    \/ BuildConfigure
    \/ BuildBuild

SpecSystem == InitSystem /\ [][NextSystem]_vars

\* the rows of the table that change the processor name
ProcessorRows ==
    {<<"android", "arm", "armv7-a">>, <<"android", "x86", "i686">>,
     <<"macos", "aarch64", "arm64">>, <<"ios", "aarch64", "arm64">>,
     <<"tvos", "aarch64", "arm64">>, <<"visionos", "aarch64", "arm64">>,
     <<"watchos", "aarch64", "arm64">>,
     <<"freebsd", "x86_64", "amd64">>, <<"openbsd", "x86_64", "amd64">>,
     <<"linux", "powerpc", "ppc">>, <<"linux", "powerpc64", "ppc64">>,
     <<"linux", "powerpc64le", "ppc64le">>,
     <<"windows", "x86_64", "AMD64">>, <<"windows", "x86", "X86">>,
     <<"windows", "aarch64", "ARM64">>}

\* the rows of the table that change the system name, for every architecture but
\* that of windows, which has rows for three architectures only
NameRows ==
    {<<"android", "Android">>, <<"dragonfly", "DragonFly">>, <<"macos", "Darwin">>,
     <<"freebsd", "FreeBSD">>, <<"fuchsia", "Fuchsia">>, <<"haiku", "Haiku">>,
     <<"ios", "iOS">>, <<"linux", "Linux">>, <<"netbsd", "NetBSD">>,
     <<"openbsd", "OpenBSD">>, <<"solaris", "SunOS">>, <<"tvos", "tvOS">>,
     <<"visionos", "visionOS">>, <<"watchos", "watchOS">>, <<"none", "Generic">>}

\* the system name and the processor the table of the specification gives
TableName(os, arch) ==
    IF os = "windows"
    THEN (IF arch \in {"x86_64", "x86", "aarch64"} THEN "Windows" ELSE os)
    ELSE IF \E r \in NameRows : r[1] = os
    THEN (CHOOSE r \in NameRows : r[1] = os)[2]
    ELSE os

TableProcessor(os, arch) ==
    IF \E r \in ProcessorRows : r[1] = os /\ r[2] = arch
    THEN (CHOOSE r \in ProcessorRows : r[1] = os /\ r[2] = arch)[3]
    ELSE arch

\* build() is past its platform defines for a cross build: target and host differ, no
\* toolchain file is defined or in the environment, the target is not redox, and the
\* caller defined no system name
CrossBuild ==
    /\ pc \in {"configure", "build", "done"}
    /\ locals.target # locals.host
    /\ "redox" \notin Range(locals.target)
    /\ "CMAKE_TOOLCHAIN_FILE" \notin DOMAIN environ
    /\ \A j \in 1..locals.given_defines :
           config.defines[j][1] \notin {"CMAKE_TOOLCHAIN_FILE", "CMAKE_SYSTEM_NAME"}

\* C11: a cross build injects CMAKE_SYSTEM_NAME and CMAKE_SYSTEM_PROCESSOR together,
\* in this order, with the values the (target_os, target_arch) table gives; a pair
\* of no row passes through verbatim.
C11_SystemTable ==
    CrossBuild =>
        Injected = <<<<"CMAKE_SYSTEM_NAME",
                       TableName(environ["CARGO_CFG_TARGET_OS"],
                                 environ["CARGO_CFG_TARGET_ARCH"])>>,
                     <<"CMAKE_SYSTEM_PROCESSOR",
                       TableProcessor(environ["CARGO_CFG_TARGET_OS"],
                                      environ["CARGO_CFG_TARGET_ARCH"])>>>>

\* a finished cross build for (linux, powerpc64le), the pair in the configure command
C11_Witness ==
    /\ pc = "done"
    /\ CrossBuild
    /\ Injected = <<<<"CMAKE_SYSTEM_NAME", "Linux">>, <<"CMAKE_SYSTEM_PROCESSOR", "ppc64le">>>>
    /\ \E i \in 1..(Len(configure_cmd.args) - 1) :
           /\ configure_cmd.args[i].s = "-DCMAKE_SYSTEM_NAME=Linux"
           /\ configure_cmd.args[i + 1].s = "-DCMAKE_SYSTEM_PROCESSOR=ppc64le"

----------------------------------------------------------------------------
(* SpecJobserver: the jobserver bridge on the hosts a build script runs on. *)

\* the hosts, each with the operating system its build scripts are compiled for
JobserverHosts ==
    {<<LinuxTriple, "linux">>, <<DarwinTriple, "macos">>, <<MingwTriple, "windows">>,
     <<FreeBsdTriple, "freebsd">>, <<<<"x86_64", "unknown", "openbsd">>, "openbsd">>,
     <<<<"x86_64", "unknown", "netbsd">>, "netbsd">>,
     <<<<"x86_64", "unknown", "dragonfly">>, "dragonfly">>,
     <<<<"x86_64", "pc", "solaris">>, "solaris">>}

\* the build directories: new, and configured before with and without a Makefile
JobserverDisks ==
    {FreshDisk, ConfiguredDisk(SourcePath, TRUE), ConfiguredDisk(SourcePath, FALSE)}

InitJobserver ==
    \E h \in JobserverHosts, m \in BuildMakeflags, mk \in BOOLEAN, d \in JobserverDisks :
        InitWith(CargoEnv(h[1], h[1]) @@ OptVar("CARGO_MAKEFLAGS", m), h[2], d,
                 [GoodTool EXCEPT !.makes_makefile = mk])

NextJobserver ==
    \/ always_configure(FALSE)
    \/ no_build_target(TRUE)
    \/ BuildBegin
    \/ BuildConfigure
    \/ BuildBuild

SpecJobserver == InitJobserver /\ [][NextJobserver]_vars

\* the build subprocess is given CARGO_MAKEFLAGS, as it is, under the name MAKEFLAGS
TokenForwarded ==
    /\ "CARGO_MAKEFLAGS" \in DOMAIN environ
    /\ \E i \in 1..Len(build_cmd.env) :
           build_cmd.env[i] = <<"MAKEFLAGS", environ["CARGO_MAKEFLAGS"]>>

\* the token names a jobserver on a named pipe
HasFifoMarker ==
    /\ "CARGO_MAKEFLAGS" \in DOMAIN environ
    /\ "--jobserver-auth=fifo:" \in Range(environ["CARGO_MAKEFLAGS"])

\* the condition of the bridge for a set of excluded hosts
BridgeCondition(excluded) ==
    /\ fs.makefile
    /\ "CARGO_MAKEFLAGS" \in DOMAIN environ
    /\ platform.os \notin excluded
    /\ ~(platform.os = "macos" /\ ~HasFifoMarker)

\* C12 (as stated): the token is forwarded exactly when a Makefile exists, the token
\* is set, the host is neither Windows nor one of three BSD variants, and the host is
\* not macOS with a token that lacks the named-pipe marker.
C12_BridgeThreeBsds ==
    BuildComposed =>
        /\ TokenForwarded <=> BridgeCondition({"windows", "freebsd", "openbsd", "netbsd"})
        /\ JobserverForwarded => TokenForwarded

\* C12 (amended): the same, with four excluded BSD variants: openbsd, netbsd, freebsd
\* and dragonfly.
C12_BridgeFourBsds ==
    BuildComposed =>
        /\ TokenForwarded
               <=> BridgeCondition({"windows", "freebsd", "openbsd", "netbsd", "dragonfly"})
        /\ JobserverForwarded => TokenForwarded

\* a finished build on macOS that forwarded the token of a named-pipe jobserver
C12_Witness ==
    /\ pc = "done"
    /\ platform.os = "macos"
    /\ HasFifoMarker
    /\ TokenForwarded

----------------------------------------------------------------------------
(* SpecFatal: build() on platforms it supports and on platforms it does not. *)

\* native builds for Apple, MSVC and Windows GNU targets, and for an Apple and an MSVC
\* target of an architecture build() has no arguments for
FatalTriples ==
    {DarwinTriple, <<"powerpc", "apple", "darwin">>, MsvcTriple,
     <<"riscv64", "pc", "windows", "msvc">>, MingwTriple}

\* what find_vs_version answers: a version with a generator name, one without, none
FatalVsVersions == {"Vs17", "Vs11", "NotFound"}

InitFatal ==
    \E t \in FatalTriples, vs \in FatalVsVersions, msys \in BOOLEAN, mingw \in BOOLEAN :
        InitWith(CargoEnv(t, t), CfgOsOf(t), FreshDisk,
                 [GoodTool EXCEPT !.vs_version = vs, !.has_msys2 = msys, !.has_mingw32 = mingw])

NextFatal ==
    \/ \E g \in {<<"Ninja">>, <<"NMake", "Makefiles">>} : generator(g)
    \/ define("CMAKE_OSX_ARCHITECTURES", "ppc")
    \/ BuildBegin
    \/ BuildConfigure
    \/ BuildBuild

SpecFatal == InitFatal /\ [][NextFatal]_vars

\* the messages of the fatal errors for an unsupported platform, architecture or
\* generator
ConfigurationErrors ==
    {"unsupported msvc target", "unsupported darwin target",
     "no valid generator found for GNU toolchain", "unsupported Visual Studio version"}

\* build() has panicked with one of these errors
ConfigurationError == pc = "panicked" /\ locals.panic \in ConfigurationErrors

\* an Apple target of an architecture that has no CMAKE_OSX_ARCHITECTURES value
UnsupportedDarwin ==
    /\ "darwin" \in Range(locals.target)
    /\ locals.target[1] \notin {"x86_64", "aarch64"}
    /\ \A i \in 1..Len(config.defines) : config.defines[i][1] # "CMAKE_OSX_ARCHITECTURES"

----------------------------------------------------------------------------
(* SpecRun: the subprocesses of build() when they start or fail to, succeed or fail. *)

\* the tools: each of the configure and the build subprocess may fail to spawn, and
\* may exit with a failure
RunTools ==
    {[GoodTool EXCEPT !.configure_spawns = cs, !.configure_ok = co,
                      !.build_spawns = bs, !.build_ok = bo] :
        cs \in BOOLEAN, co \in BOOLEAN, bs \in BOOLEAN, bo \in BOOLEAN}

InitRun ==
    \E t \in RunTools, d \in {FreshDisk, ConfiguredDisk(SourcePath, TRUE)} :
        InitWith(CargoEnv(LinuxTriple, LinuxTriple), "linux", d, t)

NextRun ==
    \/ always_configure(FALSE)
    \/ very_verbose(TRUE)
    \/ BuildBegin
    \/ BuildConfigure
    \/ BuildBuild

SpecRun == InitRun /\ [][NextRun]_vars

\* the positions of a subprocess in the order of the spawns
SpawnsOf(name) == {i \in 1..Len(spawned) : spawned[i] = name}

\* C14: the configure and the build subprocess are spawned at most once each, one
\* after the other; the build subprocess is spawned only after the configure
\* subprocess was spawned and succeeded or the configure step was skipped; when the
\* configure subprocess does not spawn or fails, build() aborts without spawning the
\* build subprocess; when the build subprocess does not spawn or fails, build() does
\* not return.
C14_Sequencing ==
    /\ Cardinality(SpawnsOf("configure")) <= 1
    /\ Cardinality(SpawnsOf("build")) <= 1
    /\ \A i \in SpawnsOf("configure"), j \in SpawnsOf("build") : i < j
    /\ SpawnsOf("build") # {}
           => \/ SpawnsOf("configure") # {} /\ tool.configure_spawns /\ tool.configure_ok
              \/ SpawnsOf("configure") = {} /\ locals.checked
                     /\ ~config.always_configure /\ locals.cache_at_check
    /\ (SpawnsOf("configure") # {} /\ ~(tool.configure_spawns /\ tool.configure_ok))
           => pc = "panicked" /\ SpawnsOf("build") = {}
    /\ (SpawnsOf("build") # {} /\ ~(tool.build_spawns /\ tool.build_ok)) => pc = "panicked"
    /\ pc = "done" => SpawnsOf("build") # {}

\* build() aborted on a configure subprocess that exited with a failure, the build
\* subprocess not spawned
C14_Witness ==
    /\ pc = "panicked"
    /\ tool.configure_spawns
    /\ ~tool.configure_ok
    /\ spawned = <<"version", "configure">>

----------------------------------------------------------------------------
(* SpecEnvChain: the target-specific lookup of the cmake executable. *)

\* the variables of the chains of CMAKE for the targets and hosts of SpecEnvChain,
\* each with a value of its own
ChainValues ==
    [n \in {"CMAKE_x86_64-unknown-linux-gnu", "CMAKE_x86_64_unknown_linux_gnu",
            "CMAKE_x86_64-unknown-freebsd", "CMAKE_x86_64_unknown_freebsd",
            "HOST_CMAKE", "TARGET_CMAKE", "CMAKE"} |-> "/opt/" \o n \o "/cmake"]

\* the environment with the variables of S set
ChainEnv(S) == [n \in S |-> ChainValues[n]]

\* TARGET and HOST: a native build and a cross build
ChainTriples == {<<LinuxTriple, LinuxTriple>>, <<FreeBsdTriple, LinuxTriple>>}

InitEnvChain ==
    \E th \in ChainTriples, S \in SUBSET (DOMAIN ChainValues) :
        InitWith(ChainEnv(S) @@ CargoEnv(th[1], th[2]), "linux", FreshDisk, GoodTool)

NextEnvChain ==
    \/ target(FreeBsdTriple)
    \/ host(FreeBsdTriple)
    \/ BuildBegin
    \/ BuildConfigure
    \/ BuildBuild

SpecEnvChain == InitEnvChain /\ [][NextEnvChain]_vars

\* the chain of variable names the specification gives for VAR, a target and a host
ChainNames(var, tgt, hst) ==
    <<var \o "_" \o JoinWith(tgt, "-"),
      var \o "_" \o JoinWith(tgt, "_"),
      (IF hst = tgt THEN "HOST_" ELSE "TARGET_") \o var,
      var>>

\* the value of the first variable of a chain that is set; None when none is
FirstSet(names) ==
    IF \E i \in 1..Len(names) : names[i] \in DOMAIN environ
    THEN Some(environ[names[CHOOSE i \in 1..Len(names) :
                                /\ names[i] \in DOMAIN environ
                                /\ \A j \in 1..(i - 1) : names[j] \notin DOMAIN environ]])
    ELSE None

\* C15: the lookup of CMAKE gives the value of the first variable that is set in the
\* chain CMAKE_<target>, CMAKE_<target with '_'>, HOST_CMAKE when host equals target
\* and TARGET_CMAKE otherwise, CMAKE; it is absent, and the executable is then "cmake",
\* only when none of the four is set.
C15_EnvChain ==
    pc \in {"configure", "build", "done"} =>
        /\ configure_cmd.program
             = UnwrapOr(FirstSet(ChainNames("CMAKE", locals.target, locals.host)), "cmake")
        /\ configure_cmd.program = "cmake"
               <=> \A i \in 1..4 :
                       ChainNames("CMAKE", locals.target, locals.host)[i] \notin DOMAIN environ

\* a finished cross build with TARGET_CMAKE used before CMAKE, and HOST_CMAKE ignored
C15_Witness ==
    /\ pc = "done"
    /\ locals.target # locals.host
    /\ {"HOST_CMAKE", "TARGET_CMAKE", "CMAKE"} \subseteq DOMAIN environ
    /\ configure_cmd.program = ChainValues["TARGET_CMAKE"]
    /\ build_cmd.program = ChainValues["TARGET_CMAKE"]

----------------------------------------------------------------------------
(* SpecEndToEnd: a native build on Linux x86_64 with cmake 3.25. *)

\* what Cargo's profile gives for PROFILE, OPT_LEVEL and DEBUG
EndToEndProfiles == {<<"debug", "0", "true">>, <<"release", "3", "false">>,
                     <<"release", "s", "false">>, <<"release", "2", "true">>}

\* what the version probe prints for 3.25
EndToEndVersions == {<<"3", ".", "2", "5">>, <<"3", ".", "2", "5", ".", "1">>}

\* build directories without a cache file: absent, or left empty
EndToEndDisks == {FreshDisk, [FreshDisk EXCEPT !.dir = TRUE]}

InitEndToEnd ==
    \E pr \in EndToEndProfiles, v \in EndToEndVersions, d \in EndToEndDisks, mk \in BOOLEAN :
        InitWith(("PROFILE" :> pr[1]) @@ ("OPT_LEVEL" :> pr[2]) @@ ("DEBUG" :> pr[3])
                     @@ CargoEnv(LinuxTriple, LinuxTriple),
                 "linux", d,
                 [GoodTool EXCEPT !.version.stdout = VersionOutput(v), !.makes_makefile = mk])

NextEndToEnd ==
    \/ out_dir("/tmp/out")
    \/ profile("MinSizeRel")
    \/ very_verbose(TRUE)
    \/ cxxflag("-w")
    \/ configure_arg("-Wno-dev")
    \/ build_arg("-v")
    \/ BuildBegin
    \/ BuildConfigure
    \/ BuildBuild

SpecEndToEnd == InitEndToEnd /\ [][NextEndToEnd]_vars

\* the arguments that are given for MSVC and Apple targets only
SpecialArguments ==
    {"-Thost=x64", "-Thost=x86", "-Ax64", "-Aarm", "-AARM64", "-AWin32",
     "-DCMAKE_OSX_ARCHITECTURES=x86_64", "-DCMAKE_OSX_ARCHITECTURES=arm64"}

\* a is followed by b in the arguments of a command
Follows(args, a, b) == \E i \in 1..(Len(args) - 1) : args[i].s = a /\ args[i + 1].s = b

\* C16: a native build for Linux x86_64 with no generator, no cache file, no
\* CARGO_MAKEFLAGS, no NUM_JOBS and cmake 3.25: the configure command has no define
\* of the system name or processor and no MSVC or Apple argument, it has the install
\* prefix and the build type, and the build command has `-j 4` and `--target install`
\* and no `--parallel`.
C16_EndToEnd ==
    pc = "done" =>
        /\ locals.version = VersionNew(3, 25)
        /\ "configure" \in Range(spawned)
        /\ config.defines = <<>>
        /\ Tagged(configure_cmd.args, {"define", "platform"}) = <<>>
        /\ Range(Texts(configure_cmd.args)) \cap SpecialArguments = {}
        /\ ("-DCMAKE_INSTALL_PREFIX=" \o UnwrapOr(config.out_dir, OutDir))
               \in Range(Texts(configure_cmd.args))
        /\ ("-DCMAKE_BUILD_TYPE=" \o locals.profile) \in Range(Texts(configure_cmd.args))
        /\ Follows(build_cmd.args, "-j", "4")
        /\ Follows(build_cmd.args, "--target", "install")
        /\ "--parallel" \notin Range(Texts(build_cmd.args))

\* a finished release build into a directory set by out_dir()
C16_Witness ==
    /\ pc = "done"
    /\ spawned = <<"version", "configure", "build">>
    /\ config.out_dir = Some("/tmp/out")
    /\ "-DCMAKE_INSTALL_PREFIX=/tmp/out" \in Range(Texts(configure_cmd.args))
    /\ "-DCMAKE_BUILD_TYPE=Release" \in Range(Texts(configure_cmd.args))
    /\ Follows(build_cmd.args, "-j", "4")

----------------------------------------------------------------------------
(* SpecGenerator: the generator the configure command names. *)

\* TARGET and HOST: no default generator, Visual Studio, MSYS/MinGW, and a cross
\* build onto Windows GNU
GeneratorTriples == {<<LinuxTriple, LinuxTriple>>, <<MsvcTriple, MsvcTriple>>,
                     <<MingwTriple, MingwTriple>>, <<MingwTriple, LinuxTriple>>}

\* the environment's generators: none, CMAKE_GENERATOR, and HOST_CMAKE_GENERATOR
\* or TARGET_CMAKE_GENERATOR before it
GeneratorEnvs ==
    {<<>>,
     "CMAKE_GENERATOR" :> <<"Unix", "Makefiles">>,
     ("CMAKE_GENERATOR" :> <<"Unix", "Makefiles">>)
         @@ ("HOST_CMAKE_GENERATOR" :> <<"Ninja", "Multi-Config">>)
         @@ ("TARGET_CMAKE_GENERATOR" :> <<"NMake", "Makefiles", "JOM">>)}

InitGenerator ==
    \E th \in GeneratorTriples, e \in GeneratorEnvs, vs \in {"Vs17", "Vs15"}, msys \in BOOLEAN :
        InitWith(e @@ CargoEnv(th[1], th[2]), CfgOsOf(th[2]), FreshDisk,
                 [GoodTool EXCEPT !.vs_version = vs, !.has_msys2 = msys])

NextGenerator ==
    \/ \E g \in {<<"Ninja">>, <<"NMake", "Makefiles">>} : generator(g)
    \/ generator_toolset("ClangCL")
    \/ BuildBegin
    \/ BuildConfigure
    \/ BuildBuild

SpecGenerator == InitGenerator /\ [][NextGenerator]_vars

\* the generators the configure command names with -G
GivenGenerators ==
    [i \in 1..Cardinality({j \in 1..Len(configure_cmd.args) : configure_cmd.args[j].s = "-G"})
        |-> configure_cmd.args[1 + CHOOSE k \in 1..Len(configure_cmd.args) :
               /\ configure_cmd.args[k].s = "-G"
               /\ Cardinality({j \in 1..k : configure_cmd.args[j].s = "-G"}) = i].s]

\* the names of the Visual Studio generators
VsNames == [v \in {"Vs17", "Vs15"} |->
               IF v = "Vs17" THEN "Visual Studio 17 2022" ELSE "Visual Studio 15 2017"]

\* the default the platform gives: Makefiles for a Windows GNU target on a Windows
\* host, Visual Studio for an MSVC target, none elsewhere
PlatformDefault ==
    IF Contains(locals.target, <<"windows", "gnu">>)
    THEN IF Contains(locals.host, <<"windows">>)
         THEN Some(IF tool.has_msys2 THEN "MSYS Makefiles" ELSE "MinGW Makefiles")
         ELSE None
    ELSE IF Contains(locals.target, <<"msvc">>) THEN Some(VsNames[tool.vs_version])
    ELSE None

\* the generator by precedence: the setting, the environment, the platform's default
GeneratorInEffect ==
    IF IsSome(config.generator) THEN Some(JoinWith(Unwrap(config.generator), " "))
    ELSE IF IsSome(FirstSet(ChainNames("CMAKE_GENERATOR", locals.target, locals.host)))
    THEN Some(JoinWith(Unwrap(FirstSet(ChainNames("CMAKE_GENERATOR", locals.target,
                                                  locals.host))), " "))
    ELSE PlatformDefault

\* C17: the configure command names one generator, chosen by precedence: the
\* generator() setting, else the target-specific lookup of CMAKE_GENERATOR, else
\* the platform's default (MSYS/MinGW Makefiles or Visual Studio), which is thus
\* named only when neither of the first two exists; and build() never changes the
\* generator of the configuration.
C17_GeneratorPrecedence ==
    /\ [](ConfigureComposed => GivenGenerators = GeneratorInEffect)
    /\ [][pc' # pc => config'.generator = config.generator]_vars

\* a finished build with MinGW Makefiles by default and no generator in the configuration
C17_Witness ==
    /\ pc = "done"
    /\ config.generator = None
    /\ ~tool.has_msys2
    /\ GivenGenerators = <<"MinGW Makefiles">>
    /\ spawned = <<"version", "make", "mingw32-make", "configure", "build">>

----------------------------------------------------------------------------
(* SpecProbe: build() when the version probe fails. *)

\* an old version, printed by the probes that fail otherwise
OldOutput == VersionOutput(<<"3", ".", "1", "1", ".", "4">>)

\* outputs that are no version: empty, another first line, one component, a minor
\* that is no number, a major beyond u32
ProbeGarbage ==
    {<<>>, <<"c", "m", "a", "k", "e", "3">>, VersionOutput(<<"3">>),
     VersionOutput(<<"3", ".", "x">>),
     VersionOutput(<<"4", "2", "9", "4", "9", "6", "7", "2", "9", "6", ".", "0">>)}

\* the probes that fail: no spawn, a failing exit status, output that is not UTF-8,
\* output that is no version
ProbeFailures ==
    {[GoodTool.version EXCEPT !.spawns = FALSE, !.stdout = OldOutput],
     [GoodTool.version EXCEPT !.success = FALSE, !.stdout = OldOutput],
     [GoodTool.version EXCEPT !.utf8 = FALSE, !.stdout = OldOutput]}
    \cup {[GoodTool.version EXCEPT !.stdout = g] : g \in ProbeGarbage}

\* probes that succeed, with an old and a new version
ProbeSuccesses == {[GoodTool.version EXCEPT !.stdout = OldOutput], GoodTool.version}

InitProbe ==
    \E v \in ProbeFailures \cup ProbeSuccesses, n \in {None, Some("8")}, m \in BuildMakeflags,
       d \in {FreshDisk, ConfiguredDisk(SourcePath, TRUE)} :
        InitWith(CargoEnv(LinuxTriple, LinuxTriple) @@ OptVar("NUM_JOBS", n)
                     @@ OptVar("CARGO_MAKEFLAGS", m),
                 "linux", d, [GoodTool EXCEPT !.version = v])

NextProbe ==
    \/ always_configure(FALSE)
    \/ build_arg("-v")
    \/ BuildBegin
    \/ BuildConfigure
    \/ BuildBuild

SpecProbe == InitProbe /\ [][NextProbe]_vars

\* C18: after a version probe that failed (no spawn, a failing exit status, output
\* that is not UTF-8 or is no version) build() has not aborted, the version is the
\* default (3, 22), it counts as at least 3.12 (`--parallel` is given whenever
\* NUM_JOBS is set and the jobserver is not used), and a finished build() has run the
\* configure step, unless that was skipped, and the build step.
C18_ProbeFailure ==
    (tool.version \in ProbeFailures /\ pc # "setup") =>
        /\ pc # "panicked"
        /\ spawned[1] = "version"
        /\ locals.version = [major |-> 3, minor |-> 22]
        /\ BuildComposed =>
               (("--parallel" \in Range(Texts(build_cmd.args)))
                    <=> ("NUM_JOBS" \in DOMAIN environ /\ ~JobserverForwarded))
        /\ pc = "done" =>
               /\ spawned[Len(spawned)] = "build"
               /\ ("configure" \in Range(spawned)) <=> ~locals.skipped

\* a finished build after a probe that exited with a failure, with --parallel
C18_Witness ==
    /\ pc = "done"
    /\ tool.version.spawns /\ ~tool.version.success
    /\ spawned = <<"version", "configure", "build">>
    /\ HasParallel("8")

----------------------------------------------------------------------------
(* SpecDefines: the defines list and the source path under setters and builds. *)

\* TARGET and HOST: builds that add defines of their own (a cross build, Redox) and
\* one that adds none
DefinesTriples == {<<FreeBsdTriple, LinuxTriple>>, <<RedoxTriple, RedoxTriple>>,
                   <<LinuxTriple, LinuxTriple>>}

DefinesPairs == {<<"K", "1">>, <<"K", "2">>, <<"CMAKE_SYSTEM_NAME", "Custom">>}

\* the caller goes on with the Config after build() has returned
CallAgain ==
    /\ pc = "done"
    /\ pc' = "setup"
    /\ locals' = NoLocals
    /\ configure_cmd' = NewCommand("")
    /\ build_cmd' = NewCommand("")
    /\ spawned' = <<>>
    /\ UNCHANGED <<config, environ, platform, fs, tool, ncalls, parse_in, parse_out>>

InitDefines ==
    \E th \in DefinesTriples, p \in {SourcePath, "/other"} :
        InitAt(p, CargoEnv(th[1], th[2]), CfgOsOf(th[2]), FreshDisk, GoodTool)

NextDefines ==
    \/ \E kv \in DefinesPairs : define(kv[1], kv[2])
    \/ target(LinuxTriple)
    \/ out_dir("/tmp/out")
    \/ BuildBegin
    \/ BuildConfigure
    \/ BuildBuild
    \/ CallAgain

SpecDefines == InitDefines /\ [][NextDefines]_vars

\* C19: every operation, a setter or a step of build(), leaves the defines list it
\* found as a prefix of the list it leaves, so that no define is removed, reordered,
\* overwritten or deduplicated; and no operation changes the source path.
C19_AppendOnly ==
    [][/\ Len(config'.defines) >= Len(config.defines)
       /\ SubSeq(config'.defines, 1, Len(config.defines)) = config.defines
       /\ config'.path = config.path]_vars

\* a second build() of a Config with a key defined twice, before the defines build()
\* added for the cross build
C19_Witness ==
    /\ pc = "done"
    /\ locals.cache_at_check
    /\ config.defines = <<<<"K", "1">>, <<"K", "2">>,
                          <<"CMAKE_SYSTEM_NAME", "FreeBSD">>,
                          <<"CMAKE_SYSTEM_PROCESSOR", "amd64">>, <<"K", "1">>>>

----------------------------------------------------------------------------
(* SpecProfile: the build type get_profile gives. *)

\* OPT_LEVEL: the levels Cargo has, and one it has not
ProfileOptLevels == {"0", "1", "2", "3", "s", "z", "fast"}

\* DEBUG: unset, the two booleans, and a debug level
ProfileDebugs == {None, Some("false"), Some("true"), Some("1")}

\* the environment of Cargo for a native Linux build, without PROFILE, OPT_LEVEL
\* and DEBUG
ProfileBase ==
    ("TARGET" :> LinuxTriple) @@ ("HOST" :> LinuxTriple) @@ ("OUT_DIR" :> OutDir)
    @@ ("CARGO_CFG_TARGET_OS" :> "linux") @@ ("CARGO_CFG_TARGET_ARCH" :> "x86_64")

InitProfile ==
    \E ol \in ProfileOptLevels, dbg \in ProfileDebugs, rp \in {"debug", "release", "bench"} :
        InitWith(ProfileBase @@ ("PROFILE" :> rp) @@ ("OPT_LEVEL" :> ol) @@ OptVar("DEBUG", dbg),
                 "linux", FreshDisk, GoodTool)

NextProfile ==
    \/ \E p \in {"Debug", "MinSizeRel"} : profile(p)
    \/ define("CMAKE_BUILD_TYPE", "Coverage")
    \/ BuildBegin
    \/ BuildConfigure
    \/ BuildBuild

SpecProfile == InitProfile /\ [][NextProfile]_vars

\* get_profile has returned to build() in these states
ProfileReturned == pc \in {"build", "done"}

\* C20: get_profile gives the profile set by profile() when one was set; otherwise
\* Debug for OPT_LEVEL 0, Release for 1, 2 or 3 with DEBUG false, RelWithDebInfo for
\* 1, 2 or 3 with another DEBUG, and MinSizeRel for s or z.
C20_Profile ==
    ProfileReturned =>
        /\ IsSome(config.profile) => locals.profile = Unwrap(config.profile)
        /\ config.profile = None =>
               /\ environ["OPT_LEVEL"] = "0" => locals.profile = "Debug"
               /\ (environ["OPT_LEVEL"] \in {"1", "2", "3"} /\ environ["DEBUG"] = "false")
                      => locals.profile = "Release"
               /\ (environ["OPT_LEVEL"] \in {"1", "2", "3"} /\ environ["DEBUG"] # "false")
                      => locals.profile = "RelWithDebInfo"
               /\ environ["OPT_LEVEL"] \in {"s", "z"} => locals.profile = "MinSizeRel"
        /\ BuildComposed => Follows(build_cmd.args, "--config", locals.profile)

\* a finished build of optimisation level 2 with a debug level that is no boolean
C20_Witness ==
    /\ pc = "done"
    /\ config.profile = None
    /\ environ["OPT_LEVEL"] = "2"
    /\ environ["PROFILE"] = "release"
    /\ "DEBUG" \in DOMAIN environ /\ environ["DEBUG"] = "1"
    /\ locals.profile = "RelWithDebInfo"
    /\ "-DCMAKE_BUILD_TYPE=RelWithDebInfo" \in Range(Texts(configure_cmd.args))

----------------------------------------------------------------------------
(* The toolchain file and the redox branch of the platform defines, under SpecPlatform. *)

\* build() is past its platform defines
PlatformResolved == pc \in {"configure", "build", "done"}

\* the caller defined key k before build()
GivenDefine(k) == \E j \in 1..locals.given_defines : config.defines[j][1] = k

\* the first branch: a toolchain file in the environment and none defined by the caller
ToolchainBranch ==
    "CMAKE_TOOLCHAIN_FILE" \in DOMAIN environ /\ ~GivenDefine("CMAKE_TOOLCHAIN_FILE")

\* C21 (as stated): whenever the first branch does not fire (no toolchain file in the
\* environment, or one defined by the caller), the target is redox and no
\* CMAKE_SYSTEM_NAME is defined, build() defines CMAKE_SYSTEM_NAME as "Generic"; when
\* the first branch fires it injects the toolchain file of the environment and no
\* system name.
C21_ElseChain ==
    PlatformResolved =>
        /\ (~ToolchainBranch /\ "redox" \in Range(locals.target)
               /\ ~GivenDefine("CMAKE_SYSTEM_NAME"))
              => Injected = <<<<"CMAKE_SYSTEM_NAME", "Generic">>>>
        /\ ToolchainBranch
              => Injected = <<<<"CMAKE_TOOLCHAIN_FILE", environ["CMAKE_TOOLCHAIN_FILE"]>>>>

\* C21 (amended): when the caller defined a toolchain file build() injects nothing;
\* otherwise, when the environment has a toolchain file it injects that file and no
\* system name, and when it has none, the target is redox and no CMAKE_SYSTEM_NAME is
\* defined, it defines CMAKE_SYSTEM_NAME as "Generic".
C21_NestedChain ==
    PlatformResolved =>
        /\ GivenDefine("CMAKE_TOOLCHAIN_FILE") => Injected = <<>>
        /\ ToolchainBranch
              => Injected = <<<<"CMAKE_TOOLCHAIN_FILE", environ["CMAKE_TOOLCHAIN_FILE"]>>>>
        /\ (~GivenDefine("CMAKE_TOOLCHAIN_FILE")
               /\ "CMAKE_TOOLCHAIN_FILE" \notin DOMAIN environ
               /\ "redox" \in Range(locals.target)
               /\ ~GivenDefine("CMAKE_SYSTEM_NAME"))
              => Injected = <<<<"CMAKE_SYSTEM_NAME", "Generic">>>>

\* a finished build for redox with a toolchain file of the caller and no system name
C21_Witness ==
    /\ pc = "done"
    /\ "redox" \in Range(locals.target)
    /\ GivenDefine("CMAKE_TOOLCHAIN_FILE")
    /\ ~GivenDefine("CMAKE_SYSTEM_NAME")
    /\ "CMAKE_TOOLCHAIN_FILE" \notin DOMAIN environ
    /\ Injected = <<>>
    /\ "-DCMAKE_TOOLCHAIN_FILE=/user.cmake" \in Range(Texts(configure_cmd.args))

----------------------------------------------------------------------------
(* SpecNdk: the detection of the Android NDK toolchain file. *)

AndroidTriple == <<"aarch64", "linux", "android">>

\* the environment of a build for Android on Linux, and of a native build
NdkEnvs ==
    {("CARGO_CFG_TARGET_OS" :> "android") @@ CargoEnv(AndroidTriple, LinuxTriple),
     CargoEnv(LinuxTriple, LinuxTriple)}

\* toolchain files: the NDK's, by three paths, and three that are not the NDK's
NdkToolchains ==
    {"/ndk/build/cmake/android.toolchain.cmake", "/ndk/android.toolchain.cmake/",
     "android.toolchain.cmake", "/ndk/android.toolchain.cmake.in",
     "/android.toolchain.cmake/tc.cmake", "/tc.cmake"}

InitNdk ==
    \E e \in NdkEnvs, tc \in {None} \cup {Some(t) : t \in NdkToolchains} :
        InitWith(OptVar("CMAKE_TOOLCHAIN_FILE", tc) @@ e, "linux", FreshDisk, GoodTool)

NextNdk ==
    \/ define("ANDROID_ABI", "arm64-v8a")
    \/ \E t \in {"/ndk/build/cmake/android.toolchain.cmake", "/ndk/android.toolchain.cmake.in",
                  "/tc.cmake"} : define("CMAKE_TOOLCHAIN_FILE", t)
    \/ target(AndroidTriple)
    \/ BuildBegin
    \/ BuildConfigure
    \/ BuildBuild

SpecNdk == InitNdk /\ [][NextNdk]_vars

\* the paths of the model whose file name is android.toolchain.cmake
NdkPaths ==
    {"/ndk/build/cmake/android.toolchain.cmake", "/ndk/android.toolchain.cmake/",
     "android.toolchain.cmake"}

\* the defines, the caller's and the injected ones, name the NDK's toolchain file and
\* an ANDROID_ABI
NdkDefined ==
    /\ \E i \in 1..Len(config.defines) : config.defines[i][1] = "ANDROID_ABI"
    /\ \E i \in 1..Len(config.defines) :
           /\ config.defines[i][1] = "CMAKE_TOOLCHAIN_FILE"
           /\ config.defines[i][2] \in NdkPaths

\* C22: the NDK is detected if and only if an ANDROID_ABI define exists and some
\* CMAKE_TOOLCHAIN_FILE define, the caller's or the one injected from the environment,
\* has the file name android.toolchain.cmake; and the target is passed to the
\* detection of the compilers exactly when the NDK is not detected.
C22_NdkDetection ==
    PlatformResolved =>
        /\ locals.ndk <=> NdkDefined
        /\ locals.cc_target = (IF NdkDefined THEN None ELSE Some(locals.target))

\* a finished build with the NDK's toolchain file injected from the environment and
\* no target passed to the detection of the compilers
C22_Witness ==
    /\ pc = "done"
    /\ locals.ndk
    /\ ~GivenDefine("CMAKE_TOOLCHAIN_FILE")
    /\ Injected = <<<<"CMAKE_TOOLCHAIN_FILE", "/ndk/android.toolchain.cmake/">>>>
    /\ locals.target = AndroidTriple
    /\ locals.cc_target = None

----------------------------------------------------------------------------
(* SpecMsvc: the architecture and host-toolset arguments for an MSVC target. *)

\* MSVC targets: the four architectures, one that is none of them, and a triple
\* given with two of them
MsvcTargets ==
    {MsvcTriple, <<"thumbv7a", "pc", "windows", "msvc">>, <<"aarch64", "pc", "windows", "msvc">>,
     <<"i686", "pc", "windows", "msvc">>, <<"arm64ec", "pc", "windows", "msvc">>,
     <<"aarch64", "x86_64", "windows", "msvc">>}

\* CMAKE_GENERATOR of the environment
MsvcEnvGenerators ==
    {None, Some(<<"NMake", "Makefiles", "JOM">>), Some(<<"Ninja", "Multi-Config">>)}

InitMsvc ==
    \E t \in MsvcTargets, g \in MsvcEnvGenerators :
        InitWith(OptVar("CMAKE_GENERATOR", g) @@ CargoEnv(t, MsvcTriple), "windows", FreshDisk,
                 GoodTool)

NextMsvc ==
    \/ \E g \in {<<"Ninja">>, <<"NMake", "Makefiles">>, <<"NMake", "Makefiles", "2">>,
                 <<"Visual", "Studio", "16", "2019">>} : generator(g)
    \/ generator_toolset("ClangCL")
    \/ BuildBegin
    \/ BuildConfigure
    \/ BuildBuild

SpecMsvc == InitMsvc /\ [][NextMsvc]_vars

\* the generator of the setting or of the environment, None when there is neither
SetGenerator ==
    IF IsSome(config.generator) THEN config.generator
    ELSE FirstSet(ChainNames("CMAKE_GENERATOR", locals.target, locals.host))

\* an NMake generator, by its exact name, or a Ninja generator is in effect
NmakeOrNinja ==
    \/ SetGenerator \in {Some(<<"NMake", "Makefiles">>), Some(<<"NMake", "Makefiles", "JOM">>)}
    \/ IsSome(SetGenerator) /\ "Ninja" \in Range(Unwrap(SetGenerator))

\* the architecture argument and the host-toolset argument for a target, by the first
\* of the four architectures it names; none for a target that names none
ArchOf(tgt) ==
    IF "x86_64" \in Range(tgt) THEN <<"-Ax64", "-Thost=x64">>
    ELSE IF "thumbv7a" \in Range(tgt) THEN <<"-Aarm", "-Thost=x64">>
    ELSE IF "aarch64" \in Range(tgt) THEN <<"-AARM64", "-Thost=x64">>
    ELSE IF "i686" \in Range(tgt) THEN <<"-AWin32", "-Thost=x86">>
    ELSE <<>>

ArchArguments == {"-Ax64", "-Aarm", "-AARM64", "-AWin32"}
HostArguments == {"-Thost=x64", "-Thost=x86"}

\* C23: for an MSVC target the configure command has an architecture argument exactly
\* when neither an NMake generator ("NMake Makefiles", "NMake Makefiles JOM") nor a
\* Ninja generator is in effect: the one of the first of x86_64 (-Ax64), thumbv7a
\* (-Aarm), aarch64 (-AARM64), i686 (-AWin32) the target names, with the host-toolset
\* argument before it unless a toolset was set; and a target that names none of the
\* four is then the fatal error "unsupported msvc target".
C23_MsvcArch ==
    /\ ConfigureComposed =>
           /\ Range(Texts(configure_cmd.args)) \cap ArchArguments
                  = (IF NmakeOrNinja THEN {} ELSE {ArchOf(locals.target)[1]})
           /\ Range(Texts(configure_cmd.args)) \cap HostArguments
                  = (IF NmakeOrNinja \/ IsSome(config.generator_toolset) THEN {}
                     ELSE {ArchOf(locals.target)[2]})
           /\ (~NmakeOrNinja /\ config.generator_toolset = None)
                  => Follows(configure_cmd.args, ArchOf(locals.target)[2],
                             ArchOf(locals.target)[1])
    /\ pc \in {"build", "done", "panicked"} =>
           (pc = "panicked" <=> (~NmakeOrNinja /\ ArchOf(locals.target) = <<>>))
    /\ pc = "panicked" => locals.panic = "unsupported msvc target"

\* a finished build for a target given with two architectures, with the arguments of
\* the first and no host toolset after generator_toolset()
C23_Witness ==
    /\ pc = "done"
    /\ locals.target = <<"aarch64", "x86_64", "windows", "msvc">>
    /\ config.generator = Some(<<"NMake", "Makefiles", "2">>)
    /\ IsSome(config.generator_toolset)
    /\ Range(Texts(configure_cmd.args)) \cap (ArchArguments \cup HostArguments) = {"-Ax64"}

----------------------------------------------------------------------------
(* SpecCompiler: the compiler-path defines of the configure command. *)

\* TARGET, HOST and the platform build() runs on: Linux, MSVC on Windows, MinGW on
\* Windows, and MSVC built for from Linux
CompilerPlatforms ==
    {<<LinuxTriple, LinuxTriple, "linux">>, <<MsvcTriple, MsvcTriple, "windows">>,
     <<MingwTriple, MingwTriple, "windows">>, <<MsvcTriple, LinuxTriple, "linux">>}

InitCompiler ==
    \E p \in CompilerPlatforms, tc \in {None, Some("/env.cmake")},
       g \in {None, Some(<<"Ninja", "Multi-Config">>)} :
        InitWith(OptVar("CMAKE_TOOLCHAIN_FILE", tc) @@ OptVar("CMAKE_GENERATOR", g)
                     @@ CargoEnv(p[1], p[2]),
                 p[3], FreshDisk, GoodTool)

NextCompiler ==
    \/ define("CMAKE_C_COMPILER", "clang")
    \/ define("CMAKE_CXX_COMPILER", "clang++")
    \/ define("CMAKE_TOOLCHAIN_FILE", "/user.cmake")
    \/ \E g \in {<<"Ninja">>, <<"Visual", "Studio", "16", "2019">>} : generator(g)
    \/ BuildBegin
    \/ BuildConfigure
    \/ BuildBuild

SpecCompiler == InitCompiler /\ [][NextCompiler]_vars

Languages == {"C", "CXX", "ASM"}

\* the compiler-path defines build() made for a language
CompilerDefines(kind) ==
    {configure_cmd.args[i].s : i \in {j \in 1..Len(configure_cmd.args) :
        configure_cmd.args[j].g = "compiler" /\ configure_cmd.args[j].kind = kind}}

\* the path of the compiler of a language as found on PATH, or as detected when it is
\* not found there
CompilerPath(kind) ==
    IF "msvc" \in Range(locals.target) THEN "/usr/bin/cl.exe"
    ELSE IF kind = "CXX" THEN "c++"
    ELSE "/usr/bin/cc"

\* C24: for each language the configure command has the compiler-path define of
\* build() if and only if no CMAKE_TOOLCHAIN_FILE is defined, the compiler-path
\* variable of the language is not defined, and build() does not run on Windows or
\* the target is MSVC with a Ninja generator.
C24_CompilerPath ==
    ConfigureComposed =>
        \A kind \in Languages :
            CompilerDefines(kind)
                = (IF /\ \A i \in 1..Len(config.defines) :
                             config.defines[i][1]
                                 \notin {"CMAKE_TOOLCHAIN_FILE", "CMAKE_" \o kind \o "_COMPILER"}
                      /\ \/ platform.os # "windows"
                         \/ /\ "msvc" \in Range(locals.target)
                            /\ IsSome(SetGenerator)
                            /\ "Ninja" \in Range(Unwrap(SetGenerator))
                   THEN {"-DCMAKE_" \o kind \o "_COMPILER=" \o CompilerPath(kind)}
                   ELSE {})

\* a finished build on Windows for MSVC with Ninja and a C compiler of the caller:
\* the paths of the other two languages only
C24_Witness ==
    /\ pc = "done"
    /\ platform.os = "windows"
    /\ config.defines = <<<<"CMAKE_C_COMPILER", "clang">>>>
    /\ CompilerDefines("C") = {}
    /\ CompilerDefines("CXX") = {"-DCMAKE_CXX_COMPILER=/usr/bin/cl.exe"}
    /\ CompilerDefines("ASM") = {"-DCMAKE_ASM_COMPILER=/usr/bin/cl.exe"}

----------------------------------------------------------------------------
(* SpecFlags: the per-language flags defines of the configure command. *)

\* TARGET, HOST and the platform build() runs on
FlagsPlatforms == {<<LinuxTriple, LinuxTriple, "linux">>, <<MsvcTriple, MsvcTriple, "windows">>}

\* CFLAGS of the environment: unset, an optimisation level with a plain -g, and a
\* debug level
FlagsEnvs == {None, Some(<<<<"-O", "2">>, <<"-g">>>>), Some(<<<<"-g", "3">>>>)}

InitFlags ==
    \E p \in FlagsPlatforms, f \in FlagsEnvs, g \in {None, Some(<<"Ninja">>)} :
        InitWith(OptVar("CFLAGS", f) @@ OptVar("CMAKE_GENERATOR", g) @@ CargoEnv(p[1], p[2]),
                 p[3], FreshDisk, GoodTool)

NextFlags ==
    \/ cflag("-Wall")
    \/ cxxflag("-w")
    \/ define("CMAKE_C_FLAGS", "-O1")
    \/ define("CMAKE_CXX_FLAGS_RELEASE", "/MT")
    \/ generator(<<"Visual", "Studio", "16", "2019">>)
    \/ BuildBegin
    \/ BuildConfigure
    \/ BuildBuild

SpecFlags == InitFlags /\ [][NextFlags]_vars

\* the flags defines build() made for a language
FlagsDefines(kind) ==
    {configure_cmd.args[i].s : i \in {j \in 1..Len(configure_cmd.args) :
        configure_cmd.args[j].g = "flags" /\ configure_cmd.args[j].kind = kind}}

\* the flag string of a language in the configuration, and its detected compiler
FlagString(kind) ==
    CASE kind = "C" -> config.cflags [] kind = "CXX" -> config.cxxflags
      [] kind = "ASM" -> config.asmflags
DetectedCompiler(kind) ==
    CASE kind = "C" -> locals.c_compiler [] kind = "CXX" -> locals.cxx_compiler
      [] kind = "ASM" -> locals.asm_compiler

\* an optimisation-level flag (-O..., /O...) or a debug-symbol flag (-g...)
OptOrDebugFlag(arg) == arg[1] \in {"-O", "/O", "-g"}

RECURSIVE WithoutOptAndDebug(_)
\* the arguments that are neither, each after a space
WithoutOptAndDebug(args) ==
    IF args = <<>> THEN ""
    ELSE (IF OptOrDebugFlag(Head(args)) THEN "" ELSE " " \o JoinWith(Head(args), ""))
         \o WithoutOptAndDebug(Tail(args))

\* the value the flags defines of a language are to have
FlagsValue(kind) == FlagString(kind) \o WithoutOptAndDebug(DetectedCompiler(kind).args)

\* C25 (as stated): for each language the flags define is omitted exactly when the
\* caller defined that variable; otherwise its value is the flag string of the
\* language with the base arguments of the detected compiler, every optimisation-level
\* flag and every debug-symbol flag removed, and for an MSVC target with no generator
\* in effect a build-type-suffixed flags define of the same value is emitted as well.
C25_FlagsFiltered ==
    ConfigureComposed =>
        \A kind \in Languages :
            FlagsDefines(kind)
                = IF \E i \in 1..Len(config.defines) :
                         config.defines[i][1] = "CMAKE_" \o kind \o "_FLAGS"
                  THEN {}
                  ELSE {"-DCMAKE_" \o kind \o "_FLAGS=" \o FlagsValue(kind)}
                       \cup (IF "msvc" \in Range(locals.target) /\ SetGenerator = None
                             THEN {"-DCMAKE_" \o kind \o "_FLAGS_"
                                       \o BuildTypeUpcase(config, locals.profile)
                                       \o "=" \o FlagsValue(kind)}
                             ELSE {})

----------------------------------------------------------------------------
(* SpecEnvCache: the cache of environment lookups while the environment changes. *)

\* the values CMAKE and HOST_CMAKE are set to
CacheValues == {"/opt/a/cmake", "/opt/b/cmake"}

\* the process environment is changed from outside the Config, between or during
\* its operations: a variable is set
SetVar(name, val) ==
    /\ pc \in {"setup", "configure", "build"}
    /\ environ' = (name :> val) @@ environ
    /\ UNCHANGED <<config, platform, fs, tool, pc, locals, configure_cmd, build_cmd, spawned,
                   ncalls, parse_in, parse_out>>

\* a variable is removed
RemoveVar(name) ==
    /\ pc \in {"setup", "configure", "build"}
    /\ name \in DOMAIN environ
    /\ environ' = [n \in DOMAIN environ \ {name} |-> environ[n]]
    /\ UNCHANGED <<config, platform, fs, tool, pc, locals, configure_cmd, build_cmd, spawned,
                   ncalls, parse_in, parse_out>>

InitEnvCache ==
    \E c \in {None} \cup {Some(v) : v \in CacheValues} :
        InitWith(OptVar("CMAKE", c) @@ CargoEnv(LinuxTriple, LinuxTriple), "linux", FreshDisk,
                 GoodTool)

NextEnvCache ==
    \/ \E n \in {"CMAKE", "HOST_CMAKE"}, v \in CacheValues : SetVar(n, v)
    \/ \E n \in {"CMAKE", "HOST_CMAKE"} : RemoveVar(n)
    \/ always_configure(FALSE)
    \/ BuildBegin
    \/ BuildConfigure
    \/ BuildBuild
    \/ CallAgain

SpecEnvCache == InitEnvCache /\ [][NextEnvCache]_vars

\* what the cache alone gives for a chain of names: the value of the first name it
\* holds a value for; None when it holds none
CachedFirst(names) ==
    IF \E i \in 1..Len(names) :
           names[i] \in DOMAIN config.env_cache /\ IsSome(config.env_cache[names[i]])
    THEN config.env_cache[names[CHOOSE i \in 1..Len(names) :
             /\ names[i] \in DOMAIN config.env_cache /\ IsSome(config.env_cache[names[i]])
             /\ \A j \in 1..(i - 1) :
                    ~(names[j] \in DOMAIN config.env_cache
                          /\ IsSome(config.env_cache[names[j]]))]]
    ELSE None

\* C26: the cache of lookups is read-through and never invalidated: a name enters it
\* with what the environment holds for it at that read (a value or absent), an entry
\* is never changed or removed, so that the environment is read at most once for a
\* name, and a later lookup gives the entry even when the environment has changed.
C26_ReadThrough ==
    /\ [][\A n \in DOMAIN config.env_cache :
              n \in DOMAIN config'.env_cache /\ config'.env_cache[n] = config.env_cache[n]]_vars
    /\ [][\A n \in DOMAIN config'.env_cache \ DOMAIN config.env_cache :
              config'.env_cache[n] = (IF n \in DOMAIN environ THEN Some(environ[n]) ELSE None)]_vars
    /\ [](ConfigureComposed =>
              configure_cmd.program
                  = UnwrapOr(CachedFirst(ChainNames("CMAKE", locals.target, locals.host)),
                             "cmake"))
    /\ [](BuildComposed =>
              build_cmd.program
                  = UnwrapOr(CachedFirst(ChainNames("CMAKE", locals.target, locals.host)),
                             "cmake"))

\* a finished build whose commands run the cmake first read, absent as HOST_CMAKE and
\* /opt/a/cmake as CMAKE, with both variables set otherwise since
C26_Witness ==
    /\ pc = "done"
    /\ "HOST_CMAKE" \in DOMAIN environ /\ environ["HOST_CMAKE"] = "/opt/b/cmake"
    /\ "CMAKE" \in DOMAIN environ /\ environ["CMAKE"] = "/opt/b/cmake"
    /\ config.env_cache["HOST_CMAKE"] = None
    /\ config.env_cache["CMAKE"] = Some("/opt/a/cmake")
    /\ configure_cmd.program = "/opt/a/cmake"
    /\ build_cmd.program = "/opt/a/cmake"

----------------------------------------------------------------------------
(* The number of -G arguments, under SpecGenerator. *)

\* the positions of the -G arguments of the configure command
GeneratorFlags == {i \in 1..Len(configure_cmd.args) : configure_cmd.args[i].s = "-G"}

\* C27: the configure command has at most one -G argument: the one of the platform's
\* default only when there is no generator from the setting or the environment, and
\* the one of the setting or the environment exactly when there is one, and then
\* without a probe for make.
C27_OneGenerator ==
    ConfigureComposed =>
        /\ Cardinality(GeneratorFlags) <= 1
        /\ (\E i \in GeneratorFlags : configure_cmd.args[i].g = "platform")
               => SetGenerator = None
        /\ (\E i \in GeneratorFlags : configure_cmd.args[i].g = "generator")
               <=> IsSome(SetGenerator)
        /\ IsSome(SetGenerator) => "make" \notin Range(spawned)

\* a finished build for Windows GNU on Windows with the generator of the environment
\* as the only one, and no probe for make
C27_Witness ==
    /\ pc = "done"
    /\ locals.target = MingwTriple /\ locals.host = MingwTriple
    /\ config.generator = None
    /\ GivenGenerators = <<"Unix Makefiles">>
    /\ Cardinality(GeneratorFlags) = 1
    /\ spawned = <<"version", "configure", "build">>

----------------------------------------------------------------------------
(* The cache guard and the configure step, under SpecCache. *)

\* C28: when maybe_clear has deleted the build directory in a call of build(), the
\* directory exists again and holds no cache file when the configure step is
\* reached, and the call runs the configure subprocess, also with always_configure
\* off, before the build subprocess.
C28_ClearThenConfigure ==
    locals.cleared =>
        /\ pc = "configure" => (fs.dir /\ ~fs.cache.exists /\ spawned = <<"version">>)
        /\ pc \in {"build", "done"} =>
               /\ ~locals.skipped
               /\ ~locals.cache_at_check
               /\ SubSeq(spawned, 1, 2) = <<"version", "configure">>
               /\ fs.dir

\* a finished build with always_configure off that cleared a build directory
\* configured from another source and ran the configure subprocess
C28_Witness ==
    /\ pc = "done"
    /\ locals.cleared
    /\ ~config.always_configure
    /\ config.path = "/src"
    /\ spawned = <<"version", "configure", "build">>
    /\ fs.cache.exists

----------------------------------------------------------------------------
(* The build type of the configure and build commands, under SpecProfile. *)

\* the build-type defines build() made
BuildTypeDefines ==
    {configure_cmd.args[i].s : i \in {j \in 1..Len(configure_cmd.args) :
        configure_cmd.args[j].g = "buildtype"}}

\* the values that follow --config in the build command
ConfigValues ==
    {build_cmd.args[i + 1].s : i \in {j \in 1..(Len(build_cmd.args) - 1) :
        build_cmd.args[j].s = "--config"}}

\* C29: the --config value of the build command is the profile of get_profile
\* whatever CMAKE_BUILD_TYPE the caller defined, and the configure command has a
\* -DCMAKE_BUILD_TYPE=<profile> of build() exactly when the caller defined no
\* CMAKE_BUILD_TYPE.
C29_ConfigIsProfile ==
    /\ ConfigureComposed =>
           BuildTypeDefines
               = (IF \E i \in 1..Len(config.defines) : config.defines[i][1] = "CMAKE_BUILD_TYPE"
                  THEN {}
                  ELSE {"-DCMAKE_BUILD_TYPE=" \o locals.profile})
    /\ BuildComposed =>
           /\ ConfigValues = {locals.profile}
           /\ locals.profile
                  = (IF IsSome(config.profile) THEN Unwrap(config.profile)
                     ELSE Unwrap(get_profile(config)))

\* a finished build configured with the build type Coverage of the caller and built
\* with --config Release
C29_Witness ==
    /\ pc = "done"
    /\ config.defines = <<<<"CMAKE_BUILD_TYPE", "Coverage">>>>
    /\ "-DCMAKE_BUILD_TYPE=Coverage" \in Range(Texts(configure_cmd.args))
    /\ BuildTypeDefines = {}
    /\ ConfigValues = {"Release"}

====
